---------------------------- MODULE Spec2Model ----------------------------
(***************************************************************************)
(* Model of the Axpert inverter interface (src/axpert.py): the checksum    *)
(* codec Axpert._calcCRC, the request cycle Axpert._sendRequest with its   *)
(* SIGALRM deadline, and the public operations open, close and command.    *)
(*                                                                         *)
(* Bytes are integers 0..255, a bytes object is a sequence of bytes, a str *)
(* is a sequence of Unicode code points.                                   *)
(***************************************************************************)
EXTENDS Integers, Sequences, FiniteSets, TLC

VARIABLES
    port,       \* self.port: <<>> is None, <<fd>> an open descriptor
    live,       \* the descriptors os.open returned that os.close has not closed
    fd_limit,   \* the highest descriptor the process can be handed
    pc,         \* where the thread is: "idle" or a point inside _sendRequest
    caller,     \* the public method that called _sendRequest ("none", "command",
                \* "query")
    add_units,  \* the add_units argument of the last query
    request,    \* the str passed to _sendRequest
    offset,     \* offset of the chunk loop of _sendRequest
    response,   \* the accumulation buffer of _sendRequest
    alarm,      \* TRUE while a SIGALRM is pending (signal.alarm armed)
    rx,         \* channel: bytes sent by the device and not yet read
    written,    \* channel: the chunks handed to os.write in this cycle, in order
    rxlog,      \* channel: all bytes os.read returned in this cycle
    stale,      \* channel: what rx held when this cycle began
    stale_failed, \* TRUE when a cycle that failed left the bytes of stale unread
    reply,      \* channel: what the device answered in this cycle
    ret,        \* how the last _sendRequest ended
    log,        \* what the last _sendRequest logged as an error
    out,        \* how the last public operation ended
    crc_val,    \* input of the checksum codec when applied on its own
    crc_out,    \* its output (<<>> before it is applied)
    ent_in,     \* a function of entities.py and its argument, applied on its own
    ent_out,    \* what it returned or raised (Pending before it is applied)
    cli         \* the command line handed to the CLI command, and how far it got

vars == <<port, live, fd_limit, stale_failed,
          pc, caller, add_units, request, offset, response, alarm, rx,
          written, rxlog, stale, reply, ret, log, out, crc_val,
          crc_out, ent_in, ent_out, cli>>

-----------------------------------------------------------------------------
(* Protocol constants *)

\* b"\r", the end of a request and of a response
CR == 13

\* b"\x28", the start of a response
START_CHAR == 40

\* b"\x00", the padding of the device's reports
NUL == 0

TX_CHUNK_SZ == 8

\* the size asked of os.read
RX_MAX == 256

-----------------------------------------------------------------------------
(* Sequence helpers *)

RECURSIVE Flatten(_)
Flatten(ss) == IF ss = <<>> THEN <<>> ELSE Head(ss) \o Flatten(Tail(ss))

Contains(s, b) == \E i \in 1..Len(s) : s[i] = b

Min(a, b) == IF a < b THEN a ELSE b

\* s[from:to] of Python, 0-based, to exclusive, clamped to the length
Slice(s, from, to) == SubSeq(s, from + 1, Min(to, Len(s)))

-----------------------------------------------------------------------------
(* crcmod.predefined.mkCrcFun("xmodem"): polynomial 0x11021, initial value *)
(* 0, not reflected, no final xor.                                         *)

\* x with bit k inverted
FlipBit(x, k) == IF (x \div (2^k)) % 2 = 1 THEN x - 2^k ELSE x + 2^k

\* x xor 0x1021
XorPoly(x) == FlipBit(FlipBit(FlipBit(x, 12), 5), 0)

\* one message bit shifted into the register
CrcBit(crc, bit) ==
    LET top     == (crc \div 32768) % 2
        shifted == (crc * 2) % 65536
    IN  IF top # bit THEN XorPoly(shifted) ELSE shifted

\* the 8 bits of a byte, most significant first (comparing next with 0 makes
\* TLC evaluate it before it recurses)
RECURSIVE CrcBits(_, _, _)
CrcBits(crc, byte, n) ==
    IF n = 0 THEN crc
    ELSE LET next == CrcBit(crc, (byte \div (2^(n-1))) % 2)
         IN  IF next >= 0 THEN CrcBits(next, byte, n - 1) ELSE next

\* the register after the bytes, those of the first half shifted in before
\* those of the second
RECURSIVE CrcFrom(_, _)
CrcFrom(crc, bytes) ==
    IF bytes = <<>> THEN crc
    ELSE IF Len(bytes) = 1 THEN CrcBits(crc, bytes[1], 8)
    ELSE LET half == Len(bytes) \div 2
             next == CrcFrom(crc, SubSeq(bytes, 1, half))
         IN  IF next >= 0 THEN CrcFrom(next, SubSeq(bytes, half + 1, Len(bytes)))
             ELSE next

\* self._crc
_crc(bytes) == CrcFrom(0, bytes)

-----------------------------------------------------------------------------
(* Axpert._calcCRC *)

\* hex(n)[2:] as a sequence of hex digits 0..15, no leading zeros
RECURSIVE HexDigits(_)
HexDigits(n) == IF n < 16 THEN <<n>> ELSE Append(HexDigits(n \div 16), n % 16)

\* binascii.unhexlify of an even number of hex digits
RECURSIVE unhexlify(_)
unhexlify(h) ==
    IF h = <<>> THEN <<>>
    ELSE <<h[1] * 16 + h[2]>> \o unhexlify(SubSeq(h, 3, Len(h)))

\* a replace that changes the first occurrence only
Replace_first(s, old, new) ==
    [i \in 1..Len(s) |->
        IF s[i] = old /\ (\A j \in 1..(i-1) : s[j] # old) THEN new ELSE s[i]]

\* bytes.replace(old, new) for one-byte old and new
Replace(s, old, new) == [i \in 1..Len(s) |-> IF s[i] = old THEN new ELSE s[i]]

\* _calcCRC without the left padding of a one-byte checksum
_calcCRC_nopad(val_b) ==
    LET crc_h0 == HexDigits(_crc(val_b))
        crc_h  == IF Len(crc_h0) % 2 = 1 THEN <<0>> \o crc_h0 ELSE crc_h0
    IN  Replace(Replace(unhexlify(crc_h), CR, CR + 1), START_CHAR, START_CHAR + 1)

_calcCRC(val_b) ==
    LET crc_h0 == HexDigits(_crc(val_b))
        crc_h  == IF Len(crc_h0) % 2 = 1 THEN <<0>> \o crc_h0 ELSE crc_h0
        crc    == Replace(Replace(unhexlify(crc_h), CR, CR + 1),
                          START_CHAR, START_CHAR + 1)
    IN  IF Len(crc) = 1 THEN <<NUL>> \o crc ELSE crc

-----------------------------------------------------------------------------
(* The checksum codec applied on its own to bounded inputs *)

\* longest input of the codec
MaxCrcLen == 2

\* 0x80 0xbb has CRC 0x0d28, 0x49 0x7e has 0x280d, 0x27 0x7e has 0x0028,
\* 0x63 0xfb has 0x000d, 0x7b 0xd1 has 0x0fff, 0xc4 0x3e has 0x0d0d
CrcBytes == {0, 39, 62, 73, 99, 123, 126, 128, 187, 196, 209, 251}

RECURSIVE SeqsUpTo(_, _)
SeqsUpTo(S, n) ==
    IF n = 0 THEN {<<>>}
    ELSE LET shorter == SeqsUpTo(S, n - 1)
         IN  shorter \cup {Append(s, b) : s \in shorter, b \in S}

CrcInputs == SeqsUpTo(CrcBytes, MaxCrcLen)

-----------------------------------------------------------------------------
(* str.encode("utf-8") and bytes.decode("utf-8") *)

\* the UTF-8 bytes of one code point (no surrogates among the inputs)
EncodeChar(cp) ==
    IF cp < 128 THEN <<cp>>
    ELSE IF cp < 2048 THEN <<192 + (cp \div 64), 128 + (cp % 64)>>
    ELSE IF cp < 65536
         THEN <<224 + (cp \div 4096), 128 + ((cp \div 64) % 64), 128 + (cp % 64)>>
    ELSE <<240 + (cp \div 262144), 128 + ((cp \div 4096) % 64),
           128 + ((cp \div 64) % 64), 128 + (cp % 64)>>

RECURSIVE encode(_)
encode(str) == IF str = <<>> THEN <<>> ELSE EncodeChar(Head(str)) \o encode(Tail(str))

\* number of bytes of the sequence a lead byte starts, 0 for an invalid lead
Utf8Len(b) ==
    IF b < 128 THEN 1
    ELSE IF b >= 194 /\ b <= 223 THEN 2
    ELSE IF b >= 224 /\ b <= 239 THEN 3
    ELSE IF b >= 240 /\ b <= 244 THEN 4
    ELSE 0

\* the values allowed for the second byte after lead byte b
Utf8Second(b) ==
    IF b = 224 THEN 160..191
    ELSE IF b = 237 THEN 128..159
    ELSE IF b = 240 THEN 144..191
    ELSE IF b = 244 THEN 128..143
    ELSE 128..191

\* whether s starts with a well-formed sequence of n bytes
Utf8WellFormed(s, n) ==
    /\ n > 0
    /\ Len(s) >= n
    /\ n >= 2 => s[2] \in Utf8Second(s[1])
    /\ \A i \in 3..n : s[i] \in 128..191

\* the code point of the well-formed n byte sequence s starts with
Utf8CodePoint(s, n) ==
    IF n = 1 THEN s[1]
    ELSE IF n = 2 THEN (s[1] - 192) * 64 + (s[2] - 128)
    ELSE IF n = 3 THEN (s[1] - 224) * 4096 + (s[2] - 128) * 64 + (s[3] - 128)
    ELSE (s[1] - 240) * 262144 + (s[2] - 128) * 4096
         + (s[3] - 128) * 64 + (s[4] - 128)

\* a run of bytes decoded one code point after the other: [ok, str], ok is
\* FALSE where Python raises UnicodeDecodeError
RECURSIVE DecodeRun(_)
DecodeRun(bytes) ==
    IF bytes = <<>> THEN [ok |-> TRUE, str |-> <<>>]
    ELSE LET n == Utf8Len(Head(bytes))
         IN  IF ~Utf8WellFormed(bytes, n) THEN [ok |-> FALSE, str |-> <<>>]
             ELSE LET rest == DecodeRun(SubSeq(bytes, n + 1, Len(bytes)))
                  IN  [ok  |-> rest.ok,
                       str |-> IF rest.ok
                               THEN <<Utf8CodePoint(bytes, n)>> \o rest.str
                               ELSE <<>>]

\* the last index up to the middle, after the first, that holds no
\* continuation byte, so that a code point can start there; 0 if there is none
CutAt(bytes) ==
    LET c == {i \in 2..((Len(bytes) \div 2) + 1) : bytes[i] \notin 128..191}
    IN  IF c = {} THEN 0 ELSE CHOOSE i \in c : \A j \in c : j <= i

\* bytes.decode("utf-8"), a long run decoded as two runs cut where a code
\* point can start
RECURSIVE decode(_)
decode(bytes) ==
    IF Len(bytes) < 8 \/ CutAt(bytes) = 0 THEN DecodeRun(bytes)
    ELSE LET l == decode(SubSeq(bytes, 1, CutAt(bytes) - 1))
             r == decode(SubSeq(bytes, CutAt(bytes), Len(bytes)))
         IN  [ok  |-> l.ok /\ r.ok,
              str |-> IF l.ok /\ r.ok THEN l.str \o r.str ELSE <<>>]

-----------------------------------------------------------------------------
(* Text: str values are sequences of code points *)

Digits == << "0", "1", "2", "3", "4", "5", "6", "7", "8", "9" >>

Upper ==
    << "A", "B", "C", "D", "E", "F", "G", "H", "I", "J", "K", "L", "M", "N",
       "O", "P", "Q", "R", "S", "T", "U", "V", "W", "X", "Y", "Z" >>

Lower ==
    << "a", "b", "c", "d", "e", "f", "g", "h", "i", "j", "k", "l", "m", "n",
       "o", "p", "q", "r", "s", "t", "u", "v", "w", "x", "y", "z" >>

\* the position of c in the run of characters w
IndexIn(w, c) == CHOOSE i \in 1..Len(w) : w[i] = c

\* ord(c) of a one-character string: a digit, a letter, or one of " + - . _"
Ord(c) ==
    CASE c = " " -> 32
      [] c = "+" -> 43
      [] c = "-" -> 45
      [] c = "." -> 46
      [] c = "_" -> 95
      [] c \in {Digits[i] : i \in 1..10} -> 47 + IndexIn(Digits, c)
      [] c \in {Upper[i] : i \in 1..26} -> 64 + IndexIn(Upper, c)
      [] c \in {Lower[i] : i \in 1..26} -> 96 + IndexIn(Lower, c)

\* the str spelled by a tuple of one-character strings
Text(w) == [i \in 1..Len(w) |-> Ord(w[i])]

\* str.split(sep) for a one-character sep: every sep separates, so an empty
\* str gives one empty field
RECURSIVE split(_, _)
split(str, sep) ==
    IF ~Contains(str, sep) THEN <<str>>
    ELSE LET i == CHOOSE k \in 1..Len(str) :
                      str[k] = sep /\ \A j \in 1..(k-1) : str[j] # sep
         IN  <<SubSeq(str, 1, i - 1)>> \o split(SubSeq(str, i + 1, Len(str)), sep)

IsDigit(c) == c >= 48 /\ c <= 57

\* the number a str of decimal digits spells
RECURSIVE DigitsValue(_)
DigitsValue(d) ==
    IF d = <<>> THEN 0 ELSE DigitsValue(SubSeq(d, 1, Len(d) - 1)) * 10 + (d[Len(d)] - 48)

\* a leading "+" or "-" taken off
Unsigned(v) == IF v # <<>> /\ v[1] \in {43, 45} THEN Tail(v) ELSE v
Sign(v) == IF v # <<>> /\ v[1] = 45 THEN 0 - 1 ELSE 1

\* int(v) for a str of digits, "+", "-", "." and letters other than "_":
\* ok is FALSE where Python raises ValueError
int(v) ==
    LET d == Unsigned(v)
    IN  IF d # <<>> /\ \A i \in 1..Len(d) : IsDigit(d[i])
        THEN [ok |-> TRUE, val |-> Sign(v) * DigitsValue(d)]
        ELSE [ok |-> FALSE, val |-> 0]

\* n and k with the trailing zeros of the fraction dropped: n / 10^k
RECURSIVE Decimal(_, _)
Decimal(n, k) ==
    IF k > 0 /\ n % 10 = 0 THEN Decimal(n \div 10, k - 1) ELSE [num |-> n, scale |-> k]

\* float(v) for a str of digits, "+", "-", "." and letters that spell no
\* exponent, "inf" or "nan": ok is FALSE where Python raises ValueError
float(v) ==
    LET d    == Unsigned(v)
        dots == {i \in 1..Len(d) : d[i] = 46}
        ip   == IF dots = {} THEN d ELSE SubSeq(d, 1, (CHOOSE i \in dots : TRUE) - 1)
        fp   == IF dots = {} THEN <<>>
                ELSE SubSeq(d, (CHOOSE i \in dots : TRUE) + 1, Len(d))
    IN  IF /\ Cardinality(dots) <= 1
           /\ Len(ip) + Len(fp) >= 1
           /\ \A i \in 1..Len(ip) : IsDigit(ip[i])
           /\ \A i \in 1..Len(fp) : IsDigit(fp[i])
        THEN [ok  |-> TRUE,
              val |-> [sign |-> Sign(v)] @@ Decimal(DigitsValue(ip \o fp), Len(fp))]
        ELSE [ok |-> FALSE, val |-> [sign |-> 1, num |-> 0, scale |-> 0]]

-----------------------------------------------------------------------------
(* entities.py: the entity table, in the order of the dict *)

\* fmt is "str", "float", "int", "lambda" (the lambda of that entity, see
\* fmt below) or "" for an entity without one; unit is "" for None and for
\* an entity without one; flag is "" and warn_ind is -1 where the entity has
\* none
ENTITIES ==
    <<
       [key |-> "dev_prot_id", fmt |-> "str", unit |-> "", flag |-> "", warn_ind |-> -1],
       [key |-> "dev_serial", fmt |-> "str", unit |-> "", flag |-> "", warn_ind |-> -1],
       [key |-> "fw_ver", fmt |-> "str", unit |-> "", flag |-> "", warn_ind |-> -1],
       [key |-> "fw2_ver", fmt |-> "str", unit |-> "", flag |-> "", warn_ind |-> -1],
       [key |-> "grid_rate_v", fmt |-> "float", unit |-> "V", flag |-> "", warn_ind |-> -1],
       [key |-> "grid_rate_c", fmt |-> "float", unit |-> "A", flag |-> "", warn_ind |-> -1],
       [key |-> "ac_out_rate_v", fmt |-> "float", unit |-> "V", flag |-> "", warn_ind |-> -1],
       [key |-> "ac_out_rate_f", fmt |-> "float", unit |-> "Hz", flag |-> "", warn_ind |-> -1],
       [key |-> "ac_out_rate_c", fmt |-> "float", unit |-> "A", flag |-> "", warn_ind |-> -1],
       [key |-> "ac_out_rate_apar_p", fmt |-> "int", unit |-> "VA", flag |-> "", warn_ind |-> -1],
       [key |-> "ac_out_rate_act_p", fmt |-> "int", unit |-> "W", flag |-> "", warn_ind |-> -1],
       [key |-> "bat_rate_v", fmt |-> "float", unit |-> "V", flag |-> "", warn_ind |-> -1],
       [key |-> "bat_util_fb_v", fmt |-> "float", unit |-> "V", flag |-> "", warn_ind |-> -1],
       [key |-> "bat_und_v", fmt |-> "float", unit |-> "V", flag |-> "", warn_ind |-> -1],
       [key |-> "bat_bulk_v", fmt |-> "float", unit |-> "V", flag |-> "", warn_ind |-> -1],
       [key |-> "bat_flt_v", fmt |-> "float", unit |-> "V", flag |-> "", warn_ind |-> -1],
       [key |-> "bat_type", fmt |-> "lambda", unit |-> "", flag |-> "", warn_ind |-> -1],
       [key |-> "ac_chg_max_c", fmt |-> "int", unit |-> "A", flag |-> "", warn_ind |-> -1],
       [key |-> "chg_max_c", fmt |-> "int", unit |-> "A", flag |-> "", warn_ind |-> -1],
       [key |-> "ac_in_range_v", fmt |-> "lambda", unit |-> "", flag |-> "", warn_ind |-> -1],
       [key |-> "out_src_pri", fmt |-> "lambda", unit |-> "", flag |-> "", warn_ind |-> -1],
       [key |-> "chg_src_pri", fmt |-> "lambda", unit |-> "", flag |-> "", warn_ind |-> -1],
       [key |-> "para_max_num", fmt |-> "lambda", unit |-> "", flag |-> "", warn_ind |-> -1],
       [key |-> "inv_type", fmt |-> "lambda", unit |-> "", flag |-> "", warn_ind |-> -1],
       [key |-> "topology", fmt |-> "lambda", unit |-> "", flag |-> "", warn_ind |-> -1],
       [key |-> "out_mode", fmt |-> "lambda", unit |-> "", flag |-> "", warn_ind |-> -1],
       [key |-> "bar_ret_v", fmt |-> "float", unit |-> "V", flag |-> "", warn_ind |-> -1],
       [key |-> "pv_para_ok", fmt |-> "lambda", unit |-> "", flag |-> "", warn_ind |-> -1],
       [key |-> "pv_p_bal", fmt |-> "lambda", unit |-> "", flag |-> "", warn_ind |-> -1],
       [key |-> "alarm_act", fmt |-> "", unit |-> "", flag |-> "a", warn_ind |-> -1],
       [key |-> "ovrl_bypass", fmt |-> "", unit |-> "", flag |-> "b", warn_ind |-> -1],
       [key |-> "pwr_save", fmt |-> "", unit |-> "", flag |-> "j", warn_ind |-> -1],
       [key |-> "lcd_rtn", fmt |-> "", unit |-> "", flag |-> "k", warn_ind |-> -1],
       [key |-> "ovrl_rstrt", fmt |-> "", unit |-> "", flag |-> "u", warn_ind |-> -1],
       [key |-> "ovr_tmp_rstrt", fmt |-> "", unit |-> "", flag |-> "v", warn_ind |-> -1],
       [key |-> "back_light", fmt |-> "", unit |-> "", flag |-> "x", warn_ind |-> -1],
       [key |-> "alrm_pri_src_off", fmt |-> "", unit |-> "", flag |-> "y", warn_ind |-> -1],
       [key |-> "flt_code_rec", fmt |-> "", unit |-> "", flag |-> "z", warn_ind |-> -1],
       [key |-> "grid_v", fmt |-> "float", unit |-> "V", flag |-> "", warn_ind |-> -1],
       [key |-> "grid_f", fmt |-> "float", unit |-> "Hz", flag |-> "", warn_ind |-> -1],
       [key |-> "ac_out_v", fmt |-> "float", unit |-> "V", flag |-> "", warn_ind |-> -1],
       [key |-> "ac_out_f", fmt |-> "float", unit |-> "Hz", flag |-> "", warn_ind |-> -1],
       [key |-> "ac_out_apar_p", fmt |-> "int", unit |-> "VA", flag |-> "", warn_ind |-> -1],
       [key |-> "ac_out_act_p", fmt |-> "int", unit |-> "W", flag |-> "", warn_ind |-> -1],
       [key |-> "out_load_perc", fmt |-> "int", unit |-> "%", flag |-> "", warn_ind |-> -1],
       [key |-> "bus_v", fmt |-> "int", unit |-> "V", flag |-> "", warn_ind |-> -1],
       [key |-> "bat_v", fmt |-> "float", unit |-> "V", flag |-> "", warn_ind |-> -1],
       [key |-> "bat_chg_c", fmt |-> "float", unit |-> "A", flag |-> "", warn_ind |-> -1],
       [key |-> "bat_cap", fmt |-> "int", unit |-> "%", flag |-> "", warn_ind |-> -1],
       [key |-> "inv_temp", fmt |-> "int", unit |-> "Â°C", flag |-> "", warn_ind |-> -1],
       [key |-> "pv_bat_cur", fmt |-> "int", unit |-> "A", flag |-> "", warn_ind |-> -1],
       [key |-> "pv_in_v", fmt |-> "float", unit |-> "V", flag |-> "", warn_ind |-> -1],
       [key |-> "bat_v_scc", fmt |-> "float", unit |-> "V", flag |-> "", warn_ind |-> -1],
       [key |-> "bat_dchg_c", fmt |-> "int", unit |-> "A", flag |-> "", warn_ind |-> -1],
       [key |-> "dev_stat", fmt |-> "str", unit |-> "", flag |-> "", warn_ind |-> -1],
       [key |-> "pv_power", fmt |-> "int", unit |-> "W", flag |-> "", warn_ind |-> -1],
       [key |-> "unkwn_1", fmt |-> "str", unit |-> "", flag |-> "", warn_ind |-> -1],
       [key |-> "unkwn_2", fmt |-> "str", unit |-> "", flag |-> "", warn_ind |-> -1],
       [key |-> "unkwn_3", fmt |-> "str", unit |-> "", flag |-> "", warn_ind |-> -1],
       [key |-> "dev_mode", fmt |-> "lambda", unit |-> "", flag |-> "", warn_ind |-> -1],
       [key |-> "wi_res1", fmt |-> "", unit |-> "", flag |-> "", warn_ind |-> 0],
       [key |-> "wi_inv_fault", fmt |-> "", unit |-> "", flag |-> "", warn_ind |-> 1],
       [key |-> "wi_bus_ovr", fmt |-> "", unit |-> "", flag |-> "", warn_ind |-> 2],
       [key |-> "wi_bus_und", fmt |-> "", unit |-> "", flag |-> "", warn_ind |-> 3],
       [key |-> "wi_bus_soft_fail", fmt |-> "", unit |-> "", flag |-> "", warn_ind |-> 4],
       [key |-> "wi_line_fail", fmt |-> "", unit |-> "", flag |-> "", warn_ind |-> 5],
       [key |-> "wi_opv_short", fmt |-> "", unit |-> "", flag |-> "", warn_ind |-> 6],
       [key |-> "wi_inv_v_lo", fmt |-> "", unit |-> "", flag |-> "", warn_ind |-> 7],
       [key |-> "wi_inv_v_hi", fmt |-> "", unit |-> "", flag |-> "", warn_ind |-> 8],
       [key |-> "wi_ovr_temp", fmt |-> "", unit |-> "", flag |-> "", warn_ind |-> 9],
       [key |-> "wi_fan_lock", fmt |-> "", unit |-> "", flag |-> "", warn_ind |-> 10],
       [key |-> "wi_bat_v_hi", fmt |-> "", unit |-> "", flag |-> "", warn_ind |-> 11],
       [key |-> "wi_lo_alrm", fmt |-> "", unit |-> "", flag |-> "", warn_ind |-> 12],
       [key |-> "wi_res2", fmt |-> "", unit |-> "", flag |-> "", warn_ind |-> 13],
       [key |-> "wi_bat_und_off", fmt |-> "", unit |-> "", flag |-> "", warn_ind |-> 14],
       [key |-> "wi_res3", fmt |-> "", unit |-> "", flag |-> "", warn_ind |-> 28],
       [key |-> "wi_ovr_load", fmt |-> "", unit |-> "", flag |-> "", warn_ind |-> 16],
       [key |-> "wi_eeprom_fault", fmt |-> "", unit |-> "", flag |-> "", warn_ind |-> 17],
       [key |-> "wi_inv_ovr_c", fmt |-> "", unit |-> "", flag |-> "", warn_ind |-> 18],
       [key |-> "wi_inv_soft_fail", fmt |-> "", unit |-> "", flag |-> "", warn_ind |-> 19],
       [key |-> "wi_self_tst_fail", fmt |-> "", unit |-> "", flag |-> "", warn_ind |-> 20],
       [key |-> "wi_op_dc_v_ovr", fmt |-> "", unit |-> "", flag |-> "", warn_ind |-> 21],
       [key |-> "wi_bat_open", fmt |-> "", unit |-> "", flag |-> "", warn_ind |-> 22],
       [key |-> "wi_c_sen_fail", fmt |-> "", unit |-> "", flag |-> "", warn_ind |-> 23],
       [key |-> "wi_bat_short", fmt |-> "", unit |-> "", flag |-> "", warn_ind |-> 24],
       [key |-> "wi_pwr_limit", fmt |-> "", unit |-> "", flag |-> "", warn_ind |-> 25],
       [key |-> "wi_pv_v_hi", fmt |-> "", unit |-> "", flag |-> "", warn_ind |-> 26],
       [key |-> "wi_mppt_ovr_f", fmt |-> "", unit |-> "", flag |-> "", warn_ind |-> 27],
       [key |-> "wi_mppt_ovr_w", fmt |-> "", unit |-> "", flag |-> "", warn_ind |-> 28],
       [key |-> "wi_bat_2_lo", fmt |-> "", unit |-> "", flag |-> "", warn_ind |-> 29],
       [key |-> "wi_res4", fmt |-> "", unit |-> "", flag |-> "", warn_ind |-> 30],
       [key |-> "wi_res5", fmt |-> "", unit |-> "", flag |-> "", warn_ind |-> 31],
       [key |-> "chg_float_v", fmt |-> "float", unit |-> "V", flag |-> "", warn_ind |-> -1],
       [key |-> "chg_bulk_v", fmt |-> "float", unit |-> "V", flag |-> "", warn_ind |-> -1],
       [key |-> "alarm_en", fmt |-> "lambda", unit |-> "", flag |-> "", warn_ind |-> -1],
       [key |-> "pwr_save_en", fmt |-> "lambda", unit |-> "", flag |-> "", warn_ind |-> -1],
       [key |-> "ovld_rstr_en", fmt |-> "lambda", unit |-> "", flag |-> "", warn_ind |-> -1],
       [key |-> "ovr_temp_rstr_en", fmt |-> "lambda", unit |-> "", flag |-> "", warn_ind |-> -1],
       [key |-> "lcd_blght_en", fmt |-> "lambda", unit |-> "", flag |-> "", warn_ind |-> -1],
       [key |-> "alrm_pri_src_int_en", fmt |-> "lambda", unit |-> "", flag |-> "", warn_ind |-> -1],
       [key |-> "flt_code_rec_en", fmt |-> "lambda", unit |-> "", flag |-> "", warn_ind |-> -1],
       [key |-> "ovrl_bypass_en", fmt |-> "lambda", unit |-> "", flag |-> "", warn_ind |-> -1],
       [key |-> "lcd_rtn_en", fmt |-> "lambda", unit |-> "", flag |-> "", warn_ind |-> -1] >>

\* the queries, in the order of the dict: call names a callable "def", keys
\* is a "def" that lists entity keys
QUERIES ==
    <<
       [qry |-> Text(<<"Q", "P", "I">>), call |-> "",
        keys |-> << "dev_prot_id" >>],
       [qry |-> Text(<<"Q", "I", "D">>), call |-> "",
        keys |-> << "dev_serial" >>],
       [qry |-> Text(<<"Q", "V", "F", "W">>), call |-> "",
        keys |-> << "fw_ver" >>],
       [qry |-> Text(<<"Q", "V", "F", "W", "2">>), call |-> "",
        keys |-> << "fw2_ver" >>],
       [qry |-> Text(<<"Q", "P", "I", "R", "I">>), call |-> "",
        keys |-> << "grid_rate_v", "grid_rate_c",
                    "ac_out_rate_v", "ac_out_rate_f",
                    "ac_out_rate_c", "ac_out_rate_apar_p",
                    "ac_out_rate_act_p", "bat_rate_v",
                    "bat_util_fb_v", "bat_und_v", "bat_bulk_v",
                    "bat_flt_v", "bat_type", "ac_chg_max_c",
                    "chg_max_c", "ac_in_range_v", "out_src_pri",
                    "chg_src_pri", "para_max_num", "inv_type",
                    "topology", "out_mode", "bar_ret_v",
                    "pv_para_ok", "pv_p_bal" >>],
       [qry |-> Text(<<"Q", "F", "L", "A", "G">>), call |-> "parseDeviceFlags", keys |-> <<>>],
       [qry |-> Text(<<"Q", "P", "I", "G", "S">>), call |-> "",
        keys |-> << "grid_v", "grid_f", "ac_out_v", "ac_out_f",
                    "ac_out_apar_p", "ac_out_act_p",
                    "out_load_perc", "bus_v", "bat_v",
                    "bat_chg_c", "bat_cap", "inv_temp",
                    "pv_bat_cur", "pv_in_v", "bat_v_scc",
                    "bat_dchg_c", "dev_stat", "unkwn_1",
                    "unkwn_2", "pv_power", "unkwn_3" >>],
       [qry |-> Text(<<"Q", "M", "O", "D">>), call |-> "",
        keys |-> << "dev_mode" >>],
       [qry |-> Text(<<"Q", "P", "I", "W", "S">>), call |-> "parseWarnState", keys |-> <<>>],
       [qry |-> Text(<<"Q", "D", "I">>), call |-> "",
        keys |-> << "ac_out_v", "ac_out_f", "ac_chg_max_c",
                    "bat_und_v", "chg_float_v", "chg_bulk_v",
                    "bat_util_fb_v", "chg_max_c",
                    "ac_in_range_v", "out_src_pri",
                    "chg_src_pri", "bat_type", "alarm_en",
                    "pwr_save_en", "ovld_rstr_en",
                    "ovr_temp_rstr_en", "lcd_blght_en",
                    "alrm_pri_src_int_en", "flt_code_rec_en",
                    "ovrl_bypass_en", "lcd_rtn_en", "out_mode",
                    "bar_ret_v", "pv_para_ok", "pv_p_bal" >>],
       [qry |-> Text(<<"Q", "M", "C", "H", "G", "C", "R">>), call |-> "str", keys |-> <<>>],
       [qry |-> Text(<<"Q", "M", "U", "C", "H", "G", "C", "R">>), call |-> "str", keys |-> <<>>],
       [qry |-> Text(<<"Q", "B", "O", "O", "T">>), call |-> "str", keys |-> <<>>] >>

\* DEVICE_MODE, in the order of the dict
DEVICE_MODE ==
    << [code |-> "P", name |-> "Power on mode"],
       [code |-> "S", name |-> "Standby mode"],
       [code |-> "L", name |-> "Line Mode"],
       [code |-> "B", name |-> "Battery mode"],
       [code |-> "F", name |-> "Fault mode"],
       [code |-> "H", name |-> "Power saving Mode"] >>

\* what a call gives: a value, or the exception it raises
Ok(x) == [ok |-> TRUE, val |-> x]
Fail(e) == [ok |-> FALSE, exc |-> e]

\* Python values: a str read from the device, a str written in a table (kept
\* as written), an int, a float, a bool, None
PyStr(s) == [str |-> s]
PyName(n) == [name |-> n]
PyInt(n) == [int |-> n]
PyFloat(f) == [float |-> f]
PyBool(b) == [bool |-> b]
PyNone == [none |-> TRUE]

\* no function of entities.py is applied on its own; nothing was applied yet
NoEnt == [fn |-> "", key |-> "", arg |-> PyStr(<<>>)]
Pending == [pending |-> TRUE]

\* the CLI command was not run: no command id, no arguments, no mnemonic
NoCli == [cmd |-> <<>>, arg |-> <<>>, cmd_f |-> <<>>, status |-> "none",
          opened |-> FALSE]

\* a table without the entry of "unkwn_3", the last key of QPIGS
EntityAt_missing(k) ==
    {i \in 1..Len(ENTITIES) : ENTITIES[i].key = k /\ k # "unkwn_3"}

\* the indices of ENTITIES that hold key k
EntityAt(k) == {i \in 1..Len(ENTITIES) : ENTITIES[i].key = k}

\* ENTITIES[k], for a key the table holds
Entity(k) == ENTITIES[CHOOSE i \in EntityAt(k) : TRUE]

\* names[int(v)]: a negative index counts from the end of the tuple
TupleIndex(names, v) ==
    LET n == int(v)
    IN  IF ~n.ok THEN Fail("ValueError")
        ELSE IF n.val >= 0 /\ n.val < Len(names) THEN Ok(PyName(names[n.val + 1]))
        ELSE IF n.val < 0 /\ n.val >= 0 - Len(names)
             THEN Ok(PyName(names[Len(names) + n.val + 1]))
        ELSE Fail("IndexError")

\* bool(int(v))
BoolInt(v) ==
    LET n == int(v)
    IN  IF n.ok THEN Ok(PyBool(n.val # 0)) ELSE Fail("ValueError")

\* DEVICE_MODE.get(v) or f"Unknown {v}"
DeviceMode(v) ==
    LET m == {i \in 1..Len(DEVICE_MODE) : Text(<<DEVICE_MODE[i].code>>) = v}
    IN  IF m # {} THEN Ok(PyName(DEVICE_MODE[CHOOSE i \in m : TRUE].name))
        ELSE Ok(PyStr(Text(<<"U", "n", "k", "n", "o", "w", "n", " ">>) \o v))

\* the "fmt" lambdas of ENTITIES
Lambda(k, v) ==
    CASE k = "bat_type" -> TupleIndex(<<"AGM", "Flooded", "User">>, v)
      [] k = "ac_in_range_v" -> TupleIndex(<<"Appliance", "UPS">>, v)
      [] k = "out_src_pri" ->
            TupleIndex(<<"Utility 1st", "Solar 1st", "SBU 1st">>, v)
      [] k = "chg_src_pri" ->
            TupleIndex(<<"Utility 1st", "Solar 1st", "Sol+Util", "Sol Only">>, v)
      [] k = "para_max_num" ->
            IF v = Text(<<"-">>) THEN Ok(PyStr(v))
            ELSE IF int(v).ok THEN Ok(PyInt(int(v).val)) ELSE Fail("ValueError")
      [] k = "inv_type" ->
            IF v = Text(<<"0", "0">>) THEN Ok(PyName("Grid tie"))
            ELSE IF v = Text(<<"0", "1">>) THEN Ok(PyName("Off grid"))
            ELSE IF v = Text(<<"1", "0">>) THEN Ok(PyName("Hybrid"))
            ELSE Fail("KeyError")
      [] k = "topology" -> TupleIndex(<<"No Transformer", "Transformer">>, v)
      [] k = "out_mode" ->
            TupleIndex(<<"Single", "Parallel", "Ph1/3", "Ph2/3", "Ph3/3">>, v)
      [] k = "pv_para_ok" -> TupleIndex(<<"PV on one", "PV on all">>, v)
      [] k = "pv_p_bal" -> TupleIndex(<<"PV max C", "PV max sum P">>, v)
      [] k = "dev_mode" -> DeviceMode(v)
      [] k \in {"alarm_en", "pwr_save_en", "ovld_rstr_en", "ovr_temp_rstr_en",
                "lcd_blght_en", "alrm_pri_src_int_en", "flt_code_rec_en",
                "ovrl_bypass_en", "lcd_rtn_en"} -> BoolInt(v)

\* ENTITIES[k]["fmt"](v)
fmt(k, v) ==
    IF EntityAt(k) = {} \/ Entity(k).fmt = "" THEN Fail("KeyError")
    ELSE CASE Entity(k).fmt = "str" -> Ok(PyStr(v))
           [] Entity(k).fmt = "int" ->
                 IF int(v).ok THEN Ok(PyInt(int(v).val)) ELSE Fail("ValueError")
           [] Entity(k).fmt = "float" ->
                 IF float(v).ok THEN Ok(PyFloat(float(v).val)) ELSE Fail("ValueError")
           [] Entity(k).fmt = "lambda" -> Lambda(k, v)

\* what iterating over the argument of a parser gives: the characters of a
\* str, the elements of a list
Items(arg) ==
    IF "str" \in DOMAIN arg THEN [i \in 1..Len(arg.str) |-> <<arg.str[i]>>]
    ELSE arg.list

\* flag_key.get(f): "" for None
flag_key(f) ==
    LET m == {i \in 1..Len(ENTITIES) :
                ENTITIES[i].flag # "" /\ Text(<<ENTITIES[i].flag>>) = f}
    IN  IF m = {} THEN "" ELSE ENTITIES[CHOOSE i \in m : \A j \in m : j <= i].key

\* the loop of parseDeviceFlags over the items left, with the state and the
\* dict so far
RECURSIVE FlagsLoop(_, _, _)
FlagsLoop(items, state, res) ==
    IF items = <<>> THEN Ok(res)
    ELSE LET f == Head(items)
         IN  IF f \in {Text(<<"E">>), Text(<<"D">>)}
             THEN FlagsLoop(Tail(items), PyBool(f = Text(<<"E">>)), res)
             ELSE IF flag_key(f) = ""
             THEN [ok |-> FALSE, exc |-> "RuntimeError", flag |-> f]
             ELSE FlagsLoop(Tail(items), state, (flag_key(f) :> state) @@ res)

\* a decoder that skips the items it does not know
KnownItem(f) == f \in {Text(<<"E">>), Text(<<"D">>)} \/ flag_key(f) # ""
parseDeviceFlags_lenient(flags) ==
    FlagsLoop(SelectSeq(Items(flags), KnownItem), PyNone, <<>>)

\* parseDeviceFlags(flags): the dict, or the RuntimeError with the flag and
\* the flags it reports
parseDeviceFlags(flags) ==
    LET r == FlagsLoop(Items(flags), PyNone, <<>>)
    IN  IF r.ok THEN r ELSE r @@ [flags |-> flags]

\* state_k of parseWarnState: the keys of the warning indicators, in the
\* order of the dict
state_k ==
    LET RECURSIVE From(_)
        From(i) ==
            IF i > Len(ENTITIES) THEN <<>>
            ELSE IF ENTITIES[i].warn_ind # 0 - 1
                 THEN <<ENTITIES[i].key>> \o From(i + 1)
                 ELSE From(i + 1)
    IN  From(1)

\* parseWarnState(stat): dict(zip(state_k, state_v)), or the ValueError of
\* the first item int() refuses
parseWarnState(stat) ==
    LET items == Items(stat)
        n     == Min(Len(items), Len(state_k))
    IN  IF \E i \in 1..Len(items) : ~int(items[i]).ok THEN Fail("ValueError")
        ELSE Ok([k \in {state_k[i] : i \in 1..n} |->
                    PyBool(int(items[CHOOSE i \in 1..n : state_k[i] = k]).val # 0)])

-----------------------------------------------------------------------------
(* Inputs: the mnemonics a caller passes and the replies a device sends *)

ACK == <<65, 67, 75>>
NAK == <<78, 65, 75>>

\* "QPI" (frame of 6 bytes), "QPIGS" (8: one full chunk), "QMOD" and U+00E9
\* (9: the terminator alone in the second chunk), "PBCV44.0" (11: 8 + 3)
Mnemonics ==
    { <<81, 80, 73>>,
      <<81, 80, 73, 71, 83>>,
      <<81, 77, 79, 68, 233>>,
      <<80, 66, 67, 86, 52, 52, 46, 48>> }

\* most 0x00 bytes a device appends to a reply
MaxPad == 1

RECURSIVE Zeros(_)
Zeros(n) == IF n = 0 THEN <<>> ELSE <<NUL>> \o Zeros(n - 1)

\* a response the validation of _sendRequest accepts: start marker, payload,
\* checksum of both, terminator
Frame(payload) ==
    <<START_CHAR>> \o payload \o _calcCRC(<<START_CHAR>> \o payload) \o <<CR>>

\* payloads without a terminator byte: "ACK", "NAK", "", 0xff, "A" 0x00, and
\* "9", whose response has the CRC 0x2835, sent as 0x29 0x35
Payloads == { ACK, NAK, <<>>, <<255>>, <<65, 0>>, <<57>> }

ValidReplies == { Frame(p) \o Zeros(n) : p \in Payloads, n \in 0..MaxPad }

\* the values a byte of a valid response is replaced by
MutValues == { NUL, CR, START_CHAR, 88 }

\* the valid responses a byte of which is replaced
MutBases == { Frame(ACK), Frame(<<57>>) }

\* base with the byte at one of the positions replaced by one of the values
Mutations(base, positions, values) ==
    { [base EXCEPT ![i] = v] : i \in positions, v \in values } \ { base }

MutatedReplies ==
    UNION { Mutations(base, 1..Len(base), MutValues) : base \in MutBases }

\* correctly checksummed and terminated, but not starting with START_CHAR:
\* "XACK", and nothing at all before the checksum
OddReplies ==
    { <<88>> \o ACK \o _calcCRC(<<88>> \o ACK) \o <<CR>>,
      _calcCRC(<<>>) \o <<CR>> }

\* replies without a terminator: nothing, and a response cut short
OpenReplies == { <<>>, <<START_CHAR>> \o ACK }

\* a payload holding a terminator byte
CrReplies == { Frame(<<65, CR, 75>>) }

Replies ==
    ValidReplies \cup MutatedReplies \cup OddReplies \cup OpenReplies
    \cup CrReplies

\* the identifiers passed to query: "QPIGS" (a list of 21 keys), "QFLAG" (a
\* callable) and "QX", which QUERIES does not hold
Queries == { Text(<<"Q", "P", "I", "G", "S">>), Text(<<"Q", "F", "L", "A", "G">>), Text(<<"Q", "X">>) }

\* the fields of a QPIGS report
StatusFields ==
    <<
       Text(<<"2", "3", "0", ".", "0">>),
       Text(<<"5", "0", ".", "0">>),
       Text(<<"2", "3", "0", ".", "0">>),
       Text(<<"5", "0", ".", "0">>),
       Text(<<"0", "3", "0", "0">>),
       Text(<<"0", "2", "5", "0">>),
       Text(<<"0", "1", "0">>),
       Text(<<"4", "0", "0">>),
       Text(<<"2", "7", ".", "0", "0">>),
       Text(<<"0", "0", "5">>),
       Text(<<"1", "0", "0">>),
       Text(<<"0", "0", "3", "5">>),
       Text(<<"0", "0", "0", "4">>),
       Text(<<"1", "2", "0", ".", "5">>),
       Text(<<"2", "7", ".", "0", "5">>),
       Text(<<"0", "0", "0", "0", "0">>),
       Text(<<"0", "0", "1", "1", "0", "1", "1", "0">>),
       Text(<<"0", "0">>),
       Text(<<"0", "0">>),
       Text(<<"0", "0", "5", "0", "0">>),
       Text(<<"0", "1", "0">>) >>

\* " ".join(fields)
RECURSIVE Join(_)
Join(fields) ==
    IF Len(fields) = 1 THEN fields[1]
    ELSE fields[1] \o <<32>> \o Join(Tail(fields))

\* the payloads of the replies to a query: a whole QPIGS report, its first two
\* fields alone, two fields of which the second is no number, and two flag
\* strings, one with the unknown flag "q"
QueryPayloads ==
    { Join(StatusFields),
      Join(SubSeq(StatusFields, 1, 2)),
      Join(<<StatusFields[1], Text(<<"x", "x">>)>>),
      Text(<<"E", "a", "b", "D", "k">>),
      Text(<<"E", "q">>) }

\* the replies to a query: the payloads framed, and no reply at all
QueryReplies == { Frame(encode(p)) : p \in QueryPayloads } \cup { <<>> }

\* the replies the device is let to give to a request of the caller
RepliesTo(c) == IF c = "query" THEN QueryReplies ELSE Replies

\* most unread bytes in the channel when a request cycle begins
MaxStale == 1

\* most bytes a read that returns some of what is there leaves behind
MaxRest == 12

\* the counts os.read(self.port, 256) returns with buf in the channel: 0 when
\* nothing is there, else up to RX_MAX
ReadSizes(buf) ==
    IF buf = <<>>
    THEN {0}
    ELSE { n \in 1..Min(Len(buf), RX_MAX) : Len(buf) - n <= MaxRest }

\* the descriptors os.open returns: with all of them open, os.open fails
Fds == 3..fd_limit

-----------------------------------------------------------------------------
(* Results *)

NoRet == [kind |-> "none", val |-> <<>>, exc |-> ""]
RetValue(b) == [kind |-> "value", val |-> b, exc |-> ""]
RetNone == [kind |-> "None", val |-> <<>>, exc |-> ""]
RetRaise(e) == [kind |-> "raise", val |-> <<>>, exc |-> e]

NoLog == [msg |-> "", exc |-> ""]
\* logger.error(msg) and logger.exception(msg) with the exception in flight
Logged(m, e) == [msg |-> m, exc |-> e]

\* op is the operation that ended: "open", "close", "command", or "signal"
\* for a SIGALRM delivered outside any request
NoOut == [op |-> "", kind |-> "none", val |-> FALSE, exc |-> ""]
OutReturn(o, v) == [op |-> o, kind |-> "return", val |-> v, exc |-> ""]
OutRaise(o, e) == [op |-> o, kind |-> "raise", val |-> FALSE, exc |-> e]

-----------------------------------------------------------------------------
(* Axpert.command, after _sendRequest has returned r *)

commandResult(r) ==
    IF r.kind = "raise" THEN OutRaise("command", r.exc)
    ELSE IF r.kind = "None" THEN OutRaise("command", "AttributeError")
    ELSE LET res == decode(r.val)
         IN  IF ~res.ok THEN OutRaise("command", "UnicodeDecodeError")
             ELSE OutReturn("command", res.str = ACK)

-----------------------------------------------------------------------------
(* Axpert.query, after _sendRequest has returned r *)

\* f"{val}{unit}"
PyUnit(val, unit) == [fstr |-> <<val, unit>>]
\* a dict, as the function from its keys
PyDict(d) == [dict |-> d]
\* str() of a list
PyRepr(l) == [repr |-> l]

\* a unit appended to every formatted value, asked for or not
WithUnit_always(r, unit) ==
    IF r.ok THEN Ok(PyUnit(r.val, unit)) ELSE r

\* lines 440 to 445: the formatted value r.val with the unit appended when
\* there is one to add
WithUnit(r, unit) ==
    IF r.ok /\ unit # "" THEN Ok(PyUnit(r.val, unit)) ELSE r

\* the raw field v of key k formatted, with the unit of the entity when units
\* are asked for and the entity has one: lines 438 to 445
Formatted(k, v, units) ==
    WithUnit(fmt(k, v), IF units THEN Entity(k).unit ELSE "")

\* a loop that leaves out the fields that fail to format
RECURSIVE FormatLoop_lenient(_, _, _, _)
Skip(keys, fields, units, res, r) ==
    FormatLoop_lenient(Tail(keys), Tail(fields), units,
                       IF r.ok THEN (Head(keys) :> r.val) @@ res ELSE res)

FormatLoop_lenient(keys, fields, units, res) ==
    IF keys = <<>> \/ fields = <<>> THEN Ok(res)
    ELSE Skip(keys, fields, units, res,
              Formatted(Head(keys), Head(fields), units))

RECURSIVE FormatLoop(_, _, _, _)
\* lines 445 to 447: the formatted value r of the first key is stored and
\* the loop goes on, or r raised and the RuntimeError names the key
Store(keys, fields, units, res, r) ==
    IF ~r.ok
    THEN [ok |-> FALSE, exc |-> "RuntimeError", key |-> Head(keys)]
    ELSE FormatLoop(Tail(keys), Tail(fields), units,
                    (Head(keys) :> r.val) @@ res)

\* the loop over dict(zip(ent_def, res)), the keys of ent_def being distinct:
\* the dict of the formatted values, or the RuntimeError naming the key whose
\* field raised
FormatLoop(keys, fields, units, res) ==
    IF keys = <<>> \/ fields = <<>> THEN Ok(res)
    ELSE Store(keys, fields, units, res,
               Formatted(Head(keys), Head(fields), units))

\* the indices of QUERIES that hold qry
QueryAt(qry) == {i \in 1..Len(QUERIES) : QUERIES[i].qry = qry}

\* ent_def(res if len(res) > 1 else res[0]) for the callable named call
Called(call, res) ==
    LET arg == IF Len(res) > 1 THEN [list |-> res] ELSE PyStr(res[1])
        r   == IF call = "parseDeviceFlags" THEN parseDeviceFlags(arg)
               ELSE parseWarnState(arg)
    IN  IF call = "str"
        THEN OutReturn("query", IF Len(res) > 1 THEN PyRepr(res) ELSE arg)
        ELSE IF r.ok THEN OutReturn("query", PyDict(r.val))
        ELSE OutRaise("query", r.exc)

\* line 449, or the RuntimeError of line 447: d is what the loop gave
Result(d) ==
    IF d.ok THEN OutReturn("query", PyDict(d.val))
    ELSE [key |-> d.key] @@ OutRaise("query", "RuntimeError")

\* lines 417 to 449, res being the fields of the payload
Lookup(qry, units, res) ==
    IF QueryAt(qry) = {} THEN OutRaise("query", "ValueError")
    ELSE LET q == QUERIES[CHOOSE i \in QueryAt(qry) : TRUE]
         IN  IF q.call # "" THEN Called(q.call, res)
             ELSE Result(FormatLoop(q.keys, res, units, <<>>))

\* lines 412 to 414: the payload decoded and split
Decoded(qry, units, text) ==
    IF ~text.ok THEN OutRaise("query", "UnicodeDecodeError")
    ELSE Lookup(qry, units, split(text.str, 32))

\* lines 412 to 449
queryResult(qry, units, r) ==
    IF r.kind = "raise" THEN OutRaise("query", r.exc)
    ELSE IF r.kind = "None" THEN OutRaise("query", "AttributeError")
    ELSE Decoded(qry, units, decode(r.val))

\* _sendRequest ends with r, having logged l, and its caller goes on
Return(r, l) ==
    /\ ret' = r
    /\ log' = l
    /\ out' = IF caller = "command" THEN commandResult(r)
              ELSE IF caller = "query" THEN queryResult(request, add_units, r)
              ELSE NoOut
    /\ caller' = "none"
    /\ pc' = "idle"

-----------------------------------------------------------------------------
(* Axpert.open and Axpert.close *)

\* os.open returns the lowest descriptor the process has not open
Lowest(S) == CHOOSE n \in S : \A m \in S : n <= m

\* what close() hands to os.close: self.port unless it is None or 0 (line 202)
Closed(p) == IF p # <<>> /\ p[1] # 0 THEN {p[1]} ELSE {}

\* os.close(fd) drops what the device sent to that descriptor
Released(p) == IF p # <<>> /\ p[1] # 0 THEN <<>> ELSE rx

\* no request cycle is in progress and none has been made since the last
\* call of open or close: the locals of _sendRequest and the record of what
\* the cycle wrote, read and returned are empty
NoCycle ==
    /\ request' = <<>>
    /\ offset' = 0
    /\ response' = <<>>
    /\ written' = <<>>
    /\ rxlog' = <<>>
    /\ stale' = <<>>
    /\ stale_failed' = FALSE
    /\ reply' = <<>>
    /\ ret' = NoRet
    /\ log' = NoLog
    /\ add_units' = TRUE

open ==
    /\ pc = "idle"
    /\ \/ \E fd \in Fds \ live :
            /\ fd = Lowest(Fds \ live)
            /\ port' = <<fd>>
            /\ live' = live \cup {fd}
            /\ rx' = <<>>
            /\ out' = OutReturn("open", TRUE)
       \/ /\ out' = OutRaise("open", "RuntimeError")
          /\ UNCHANGED <<port, live, rx>>
    /\ NoCycle
    /\ UNCHANGED <<pc, caller, alarm, crc_val, crc_out, ent_in, ent_out, fd_limit, cli>>

close ==
    /\ pc = "idle"
    /\ port' = <<>>
    /\ live' = live \ Closed(port)
    /\ rx' = Released(port)
    /\ out' = OutReturn("close", TRUE)
    /\ NoCycle
    /\ UNCHANGED <<pc, caller, alarm, crc_val, crc_out, ent_in, ent_out, fd_limit, cli>>

-----------------------------------------------------------------------------
(* Axpert._sendRequest *)

\* request_crc
RequestCrc(req) == encode(req) \o _calcCRC(encode(req)) \o <<CR>>

\* a chunk one byte too long
Chunk_long(frame, off) ==
    LET chunk == Slice(frame, off, off + TX_CHUNK_SZ + 1)
    IN  IF chunk = <<CR>> THEN <<CR, NUL>> ELSE chunk

\* the chunk as sliced, a lone terminator left as it is
Chunk_bare(frame, off) == Slice(frame, off, off + TX_CHUNK_SZ)

\* the chunk handed to os.write at an offset of the frame
Chunk(frame, off) ==
    LET chunk == Slice(frame, off, off + TX_CHUNK_SZ)
    IN  IF chunk = <<CR>> THEN <<CR, NUL>> ELSE chunk

\* an rstrip that strips nothing
rstrip_none(s, b) == s

\* a strip that removes every byte b, wherever it is
rstrip_all(s, b) == SelectSeq(s, LAMBDA x : x # b)

\* bytes.rstrip(b)
RECURSIVE rstrip(_, _)
rstrip(s, b) ==
    IF s # <<>> /\ s[Len(s)] = b THEN rstrip(SubSeq(s, 1, Len(s) - 1), b) ELSE s

\* s[:-n] and s[-n:] of Python
DropLast(s, n) == SubSeq(s, 1, Len(s) - n)
TakeLast(s, n) == SubSeq(s, (IF Len(s) > n THEN Len(s) - n ELSE 0) + 1, Len(s))

\* a validation that does not compare the checksum
Validate_nocrc(resp) ==
    IF resp[Len(resp)] # CR
    THEN [ret |-> RetNone, log |-> Logged("does not end with CR", "")]
    ELSE LET r2 == DropLast(DropLast(resp, 1), 2)
         IN  IF r2 = <<>>
             THEN [ret |-> RetRaise("IndexError"), log |-> NoLog]
             ELSE [ret |-> RetValue(Tail(r2)),
                   log |-> IF r2[1] # START_CHAR
                           THEN Logged("does not start with", "")
                           ELSE NoLog]

\* a validation that compares the checksum before it looks at the terminator
Validate_crcfirst(resp) ==
    LET r1  == DropLast(resp, 1)
        crc == _calcCRC(DropLast(r1, 2))
        r2  == DropLast(r1, 2)
    IN  IF TakeLast(r1, 2) # crc
        THEN [ret |-> RetNone, log |-> Logged("CRC does not match", "")]
        ELSE IF resp[Len(resp)] # CR
        THEN [ret |-> RetNone, log |-> Logged("does not end with CR", "")]
        ELSE IF r2 = <<>>
        THEN [ret |-> RetRaise("IndexError"), log |-> NoLog]
        ELSE [ret |-> RetValue(Tail(r2)),
              log |-> IF r2[1] # START_CHAR
                      THEN Logged("does not start with", "")
                      ELSE NoLog]

\* the validation of the accumulated response, lines 365 to 400:
\* what is returned or raised, and what is logged
Validate(resp) ==
    IF resp[Len(resp)] # CR
    THEN [ret |-> RetNone, log |-> Logged("does not end with CR", "")]
    ELSE LET r1  == DropLast(resp, 1)
             crc == _calcCRC(DropLast(r1, 2))
             r2  == DropLast(r1, 2)
         IN  IF TakeLast(r1, 2) # crc
             THEN [ret |-> RetNone, log |-> Logged("CRC does not match", "")]
             ELSE IF r2 = <<>>
             THEN [ret |-> RetRaise("IndexError"), log |-> NoLog]
             ELSE [ret |-> RetValue(Tail(r2)),
                   log |-> IF r2[1] # START_CHAR
                           THEN Logged("does not start with", "")
                           ELSE NoLog]

\* _sendRequest ended with r without returning a payload: it returned None
\* (lines 291, 337, 360, 378, 390) or an exception left it
Failed(r) == r.kind \in {"None", "raise"}

\* command(cmd) calls _sendRequest(cmd): lines 289 to 306; add_units, which
\* only query takes, is left at its default
command ==
    /\ pc = "idle"
    /\ Len(rx) <= MaxStale
    /\ \E cmd \in Mnemonics :
        /\ request' = cmd
        /\ offset' = 0
        /\ written' = <<>>
        /\ rxlog' = <<>>
        /\ response' = <<>>
        /\ stale' = rx
        /\ stale_failed' = (rx # <<>> /\ Failed(ret))
        /\ reply' = <<>>
        /\ IF port = <<>>
           THEN /\ ret' = RetNone
                /\ log' = Logged("port is not open", "")
                /\ out' = commandResult(RetNone)
                /\ UNCHANGED <<pc, caller, alarm>>
           ELSE /\ caller' = "command"
                /\ alarm' = TRUE
                /\ ret' = NoRet
                /\ log' = NoLog
                /\ out' = NoOut
                /\ pc' = "tx_sleep"
    /\ add_units' = TRUE
    /\ UNCHANGED <<port, rx, crc_val, crc_out, ent_in, ent_out, live, fd_limit, cli>>

\* query(qry, add_units) calls _sendRequest(qry): lines 289 to 306
query ==
    /\ pc = "idle"
    /\ Len(rx) <= MaxStale
    /\ \E qry \in Queries, units \in BOOLEAN :
        /\ request' = qry
        /\ add_units' = units
        /\ offset' = 0
        /\ written' = <<>>
        /\ rxlog' = <<>>
        /\ response' = <<>>
        /\ stale' = rx
        /\ stale_failed' = (rx # <<>> /\ Failed(ret))
        /\ reply' = <<>>
        /\ IF port = <<>>
           THEN /\ ret' = RetNone
                /\ log' = Logged("port is not open", "")
                /\ out' = queryResult(qry, units, RetNone)
                /\ UNCHANGED <<pc, caller, alarm>>
           ELSE /\ caller' = "query"
                /\ alarm' = TRUE
                /\ ret' = NoRet
                /\ log' = NoLog
                /\ out' = NoOut
                /\ pc' = "tx_sleep"
    /\ UNCHANGED <<port, rx, crc_val, crc_out, ent_in, ent_out, live, fd_limit, cli>>

\* time.sleep(self.TX_DELAY)
TxSleep ==
    /\ pc = "tx_sleep"
    /\ pc' = "tx_write"
    /\ UNCHANGED <<port, caller, request, offset, response, alarm, rx, written,
                   rxlog, stale, reply, ret, log, out,
                   crc_val, crc_out, ent_in, ent_out,
                   add_units, live, stale_failed, fd_limit, cli>>

\* a write after which the next chunk is written without a delay
TxWrite_nodelay ==
    /\ pc = "tx_write"
    /\ written' = Append(written, Chunk(RequestCrc(request), offset))
    /\ offset' = offset + TX_CHUNK_SZ
    /\ IF offset' < Len(RequestCrc(request))
       THEN /\ pc' = "tx_write"
            /\ UNCHANGED <<rx, reply, response>>
       ELSE /\ pc' = "rx_sleep"
            /\ response' = <<>>
            /\ \E r \in RepliesTo(caller) : reply' = r /\ rx' = rx \o r
    /\ UNCHANGED <<port, live, fd_limit, cli, stale_failed, caller, add_units,
                   request, alarm, rxlog, stale, ret, log, out, crc_val,
                   crc_out, ent_in, ent_out>>

\* os.write(self.port, chunk) succeeds; after the last chunk the loop ends
\* and the device answers
TxWrite ==
    /\ pc = "tx_write"
    /\ written' = Append(written, Chunk(RequestCrc(request), offset))
    /\ offset' = offset + TX_CHUNK_SZ
    /\ IF offset' < Len(RequestCrc(request))
       THEN /\ pc' = "tx_sleep"
            /\ UNCHANGED <<rx, reply, response>>
       ELSE /\ pc' = "rx_sleep"
            /\ response' = <<>>
            /\ \E r \in RepliesTo(caller) : reply' = r /\ rx' = rx \o r
    /\ UNCHANGED <<port, caller, request, alarm, rxlog, stale, ret, log, out,
                   crc_val, crc_out, ent_in, ent_out,
                   add_units, live, stale_failed, fd_limit, cli>>

\* a failed write that leaves the port open
TxWriteFails_open ==
    /\ pc = "tx_write"
    /\ alarm' = FALSE
    /\ Return(RetNone, Logged("Error writing to device.", "OSError"))
    /\ UNCHANGED <<port, rx, request, offset, response, written, rxlog, stale,
                   reply, crc_val, crc_out, ent_in, ent_out,
                   add_units, live, stale_failed, fd_limit, cli>>

\* os.write raises OSError: lines 331 to 337
TxWriteFails ==
    /\ pc = "tx_write"
    /\ alarm' = FALSE
    /\ port' = <<>>
    /\ live' = live \ Closed(port)
    /\ rx' = Released(port)
    /\ Return(RetNone, Logged("Error writing to device.", "OSError"))
    /\ UNCHANGED <<request, offset, response, written, rxlog, stale, reply,
                   crc_val, crc_out, ent_in, ent_out,
                   add_units, stale_failed, fd_limit, cli>>

\* time.sleep(0.15)
RxSleep ==
    /\ pc = "rx_sleep"
    /\ pc' = "rx_read"
    /\ UNCHANGED <<port, caller, request, offset, response, alarm, rx, written,
                   rxlog, stale, reply, ret, log, out,
                   crc_val, crc_out, ent_in, ent_out,
                   add_units, live, stale_failed, fd_limit, cli>>

\* os.read(self.port, 256) returns r: some of what is there, nothing when
\* nothing is there
RxRead ==
    /\ pc = "rx_read"
    /\ \E n \in ReadSizes(rx) :
        LET r == SubSeq(rx, 1, n)
        IN  /\ rx' = SubSeq(rx, n + 1, Len(rx))
            /\ rxlog' = rxlog \o r
            /\ IF Contains(r, CR)
               THEN /\ response' = rstrip(response \o r, NUL)
                    /\ pc' = "rx_done"
               ELSE /\ response' = response \o r
                    /\ pc' = "rx_sleep"
    /\ UNCHANGED <<port, caller, request, offset, alarm, written, stale, reply,
                   ret, log, out, crc_val, crc_out, ent_in,
                   ent_out, add_units, live, stale_failed, fd_limit, cli>>

\* a read failure after which the frame is sent again from its first chunk
RxReadFails_retry ==
    /\ pc = "rx_read"
    /\ pc' = "tx_sleep"
    /\ offset' = 0
    /\ response' = <<>>
    /\ UNCHANGED <<port, live, fd_limit, cli, stale_failed, caller, add_units,
                   request, alarm, rx, written, rxlog, stale, reply, ret, log,
                   out, crc_val, crc_out, ent_in, ent_out>>

\* os.read raises OSError: lines 358 to 360
RxReadFails ==
    /\ pc = "rx_read"
    /\ Return(RetNone, Logged("Error reading inverter.", "OSError"))
    /\ UNCHANGED <<port, request, offset, response, alarm, rx, written, rxlog,
                   stale, reply, crc_val, crc_out, ent_in,
                   ent_out, add_units, live, stale_failed, fd_limit, cli>>

\* signal.alarm(0) and the validation: lines 362 to 400
Finish ==
    /\ pc = "rx_done"
    /\ alarm' = FALSE
    /\ Return(Validate(response).ret, Validate(response).log)
    /\ UNCHANGED <<port, request, offset, response, rx, written, rxlog, stale,
                   reply, crc_val, crc_out, ent_in, ent_out,
                   add_units, live, stale_failed, fd_limit, cli>>

\* a handler that returns without raising
_timeoutAlarm_silent ==
    /\ alarm
    /\ alarm' = FALSE
    /\ UNCHANGED <<port, pc, caller, request, offset, response, rx, written,
                   rxlog, stale, reply, ret, log, out,
                   crc_val, crc_out, ent_in, ent_out,
                   add_units, live, stale_failed, fd_limit, cli>>

\* SIGALRM is delivered and _timeoutAlarm raises TimeoutError where the
\* thread is: inside the outer try, inside the try around os.write, or, once
\* the terminator was read, still inside the outer try (lines 351 to 356) or
\* already past it (before line 363)
_timeoutAlarm ==
    /\ alarm
    /\ alarm' = FALSE
    /\ \/ /\ pc \in {"tx_sleep", "rx_sleep", "rx_read"}
          /\ Return(RetNone, Logged("Error reading inverter.", "TimeoutError"))
          /\ UNCHANGED <<port, live, rx>>
       \/ /\ pc = "tx_write"
          /\ port' = <<>>
          /\ live' = live \ Closed(port)
          /\ rx' = Released(port)
          /\ Return(RetNone, Logged("Error writing to device.", "TimeoutError"))
       \/ /\ pc = "rx_done"
          /\ \/ Return(RetNone, Logged("Error reading inverter.", "TimeoutError"))
             \/ Return(RetRaise("TimeoutError"), NoLog)
          /\ UNCHANGED <<port, live, rx>>
       \/ /\ pc = "idle"
          /\ out' = OutRaise("signal", "TimeoutError")
          /\ UNCHANGED <<port, live, rx, pc, caller, ret, log>>
    /\ UNCHANGED <<request, offset, response, written, rxlog, stale, reply,
                   crc_val, crc_out, ent_in, ent_out,
                   add_units, stale_failed, fd_limit, cli>>

-----------------------------------------------------------------------------
(* Specifications *)

\* the state a constructed Axpert is in: lines 142 to 161
Constructed ==
    /\ stale_failed = FALSE
    /\ live = {}
    /\ port = <<>>
    /\ pc = "idle"
    /\ caller = "none"
    /\ add_units = TRUE
    /\ request = <<>>
    /\ offset = 0
    /\ response = <<>>
    /\ alarm = FALSE
    /\ rx = <<>>
    /\ written = <<>>
    /\ rxlog = <<>>
    /\ stale = <<>>
    /\ reply = <<>>
    /\ ret = NoRet
    /\ log = NoLog
    /\ out = NoOut
    /\ crc_val = <<>>
    /\ crc_out = <<>>
    /\ ent_in = NoEnt
    /\ ent_out = Pending
    /\ cli = NoCli

\* a process that can be handed one descriptor
Init == Constructed /\ fd_limit = 3

Next ==
    \/ open
    \/ close
    \/ command
    \/ query
    \/ TxSleep
    \/ TxWrite
    \/ TxWriteFails
    \/ RxSleep
    \/ RxRead
    \/ RxReadFails
    \/ Finish
    \/ _timeoutAlarm

Spec == Init /\ [][Next]_vars

\* signal.alarm(DEVICE_TIMEOUT): a pending SIGALRM is delivered; nothing
\* makes a sleep, a write or a read of the cycle complete
FairSpec == Init /\ [][Next]_vars /\ WF_vars(_timeoutAlarm)

\* a process that can be handed a second descriptor while it has one open
InitHandles == Constructed /\ fd_limit = 4

SpecHandles == InitHandles /\ [][Next]_vars

\* the checksum codec on its own
calcCRC ==
    /\ crc_out = <<>>
    /\ crc_out' = _calcCRC(crc_val)
    /\ UNCHANGED <<port, pc, caller, request, offset, response, alarm, rx,
                   written, rxlog, stale, reply, ret, log,
                   out, crc_val, ent_in, ent_out, add_units, live,
                   stale_failed, fd_limit, cli>>

InitCRC ==
    /\ fd_limit = 3
    /\ cli = NoCli
    /\ stale_failed = FALSE
    /\ live = {}
    /\ port = <<>>
    /\ pc = "idle"
    /\ caller = "none"
    /\ add_units = TRUE
    /\ request = <<>>
    /\ offset = 0
    /\ response = <<>>
    /\ alarm = FALSE
    /\ rx = <<>>
    /\ written = <<>>
    /\ rxlog = <<>>
    /\ stale = <<>>
    /\ reply = <<>>
    /\ ret = NoRet
    /\ log = NoLog
    /\ out = NoOut
    /\ crc_val \in CrcInputs
    /\ crc_out = <<>>
    /\ ent_in = NoEnt
    /\ ent_out = Pending

NextCRC == calcCRC

SpecCRC == InitCRC /\ [][NextCRC]_vars

-----------------------------------------------------------------------------
(* The functions of entities.py applied on their own to bounded inputs *)

\* longest flag string built from FlagChars
MaxFlagLen == 4

\* "E", "D", the flags "a" and "x", and "q", which is no flag
FlagChars == { Ord("E"), Ord("D"), Ord("a"), Ord("x"), Ord("q") }

\* flag strings: all short ones, and three that name several flags
FlagInputs ==
    SeqsUpTo(FlagChars, MaxFlagLen)
    \cup { Text(<<"E", "a", "b", "k", "D", "x", "y">>),
           Text(<<"E", "a", "b", "j", "k", "u", "v", "x", "y", "z", "D">>),
           Text(<<"E", "k", "D", "a", "b", "j", "q", "u">>) }

\* number of warning indicators in ENTITIES
NumWarn == Len(state_k)

\* a str of n characters, "1" at index i (from 0) and the indices in ones,
\* "0" elsewhere
Bits(n, ones) == [i \in 1..n |-> IF (i - 1) \in ones THEN Ord("1") ELSE Ord("0")]

\* warning strings: of the right length with none, one, two or all bits
\* set; one bit set in a str one shorter and one longer; the empty str; and
\* a str with a character that is no digit
WarnInputs ==
    { Bits(NumWarn, {}), Bits(NumWarn, 0..(NumWarn - 1)), <<>>,
      [Bits(NumWarn, {}) EXCEPT ![2] = Ord("x")] }
    \cup { Bits(NumWarn, {i}) : i \in 0..(NumWarn - 1) }
    \cup { Bits(NumWarn, {i, 28}) : i \in {1, 15} }
    \cup { Bits(n, {i}) : n \in {NumWarn - 1, NumWarn + 1}, i \in {1, 15, 28} }

\* the entities with an enumerated lookup, and one each with int, float, str,
\* bool(int()), the lambda of para_max_num and no "fmt"
FmtKeys ==
    { "bat_type", "ac_in_range_v", "out_src_pri", "chg_src_pri", "inv_type",
      "topology", "out_mode", "pv_para_ok", "pv_p_bal", "dev_mode",
      "bus_v", "grid_v", "dev_serial", "alarm_en", "para_max_num", "alarm_act" }

\* raw fields: codes inside and outside the tables, negative codes, the mode
\* letters and an unknown one, and fields that are no number
FmtValues ==
    { Text(<<c>>) : c \in {"0", "1", "2", "3", "4", "5", "P", "S", "L", "B",
                           "F", "H", "Z", "-", "x"} }
    \cup { Text(w) : w \in { <<"-", "1">>, <<"-", "3">>, <<"-", "6">>,
                             <<"0", "0">>, <<"0", "1">>, <<"1", "0">>,
                             <<"1", "1">>, <<"2", ".", "5">> } }
    \cup { <<>> }

EntInputs ==
    { [fn |-> "parseDeviceFlags", key |-> "", arg |-> PyStr(f)] : f \in FlagInputs }
    \cup { [fn |-> "parseWarnState", key |-> "", arg |-> PyStr(w)] : w \in WarnInputs }
    \cup { [fn |-> "fmt", key |-> k, arg |-> PyStr(v)] : k \in FmtKeys, v \in FmtValues }

\* parseDeviceFlags is called
DecodeFlags ==
    /\ ent_out = Pending
    /\ ent_in.fn = "parseDeviceFlags"
    /\ ent_out' = parseDeviceFlags(ent_in.arg)
    /\ UNCHANGED <<port, pc, caller, request, offset, response, alarm, rx,
                   written, rxlog, stale, reply, ret, log,
                   out, crc_val, crc_out, ent_in, add_units, live,
                   stale_failed, fd_limit, cli>>

\* parseWarnState is called
DecodeWarn ==
    /\ ent_out = Pending
    /\ ent_in.fn = "parseWarnState"
    /\ ent_out' = parseWarnState(ent_in.arg)
    /\ UNCHANGED <<port, pc, caller, request, offset, response, alarm, rx,
                   written, rxlog, stale, reply, ret, log,
                   out, crc_val, crc_out, ent_in, add_units, live,
                   stale_failed, fd_limit, cli>>

\* the "fmt" of an entity is called
Coerce ==
    /\ ent_out = Pending
    /\ ent_in.fn = "fmt"
    /\ ent_out' = fmt(ent_in.key, ent_in.arg.str)
    /\ UNCHANGED <<port, pc, caller, request, offset, response, alarm, rx,
                   written, rxlog, stale, reply, ret, log,
                   out, crc_val, crc_out, ent_in, add_units, live,
                   stale_failed, fd_limit, cli>>

InitEnt ==
    /\ fd_limit = 3
    /\ cli = NoCli
    /\ stale_failed = FALSE
    /\ live = {}
    /\ port = <<>>
    /\ pc = "idle"
    /\ caller = "none"
    /\ add_units = TRUE
    /\ request = <<>>
    /\ offset = 0
    /\ response = <<>>
    /\ alarm = FALSE
    /\ rx = <<>>
    /\ written = <<>>
    /\ rxlog = <<>>
    /\ stale = <<>>
    /\ reply = <<>>
    /\ ret = NoRet
    /\ log = NoLog
    /\ out = NoOut
    /\ crc_val = <<>>
    /\ crc_out = <<>>
    /\ ent_in \in EntInputs
    /\ ent_out = Pending

NextEnt ==
    \/ DecodeFlags
    \/ DecodeWarn
    \/ Coerce

SpecEnt == InitEnt /\ [][NextEnt]_vars

-----------------------------------------------------------------------------
(* Properties of the checksum codec, under SpecCRC *)

\* the escaping of one checksum byte as the protocol states it
Escaped(b) == IF b = 13 THEN 14 ELSE IF b = 40 THEN 41 ELSE b

\* C2: _calcCRC returns exactly two bytes, the CRC-16/XMODEM value of its
\* input high byte first (0x00 as high byte when the value is below 0x100),
\* each byte replaced by 0x0e if it is 0x0d and by 0x29 if it is 0x28.
C2_ChecksumIsEscapedCrc ==
    crc_out # <<>> =>
        crc_out = << Escaped(_crc(crc_val) \div 256),
                     Escaped(_crc(crc_val) % 256) >>

\* a value below 0x100 whose low byte is reserved: 0x000d gives 0x00 0x0e
C2_Witness == crc_out = <<0, 14>> /\ _crc(crc_val) = 13

\* C3: neither byte of a checksum _calcCRC returns is 0x0d or 0x28.
C3_NoReservedByte ==
    crc_out # <<>> =>
        /\ Len(crc_out) = 2
        /\ \A i \in 1..2 : crc_out[i] \notin {CR, START_CHAR}

\* both bytes of the CRC are reserved: 0x0d28 gives 0x0e 0x29, 0x0d0d 0x0e 0x0e
C3_Witness ==
    /\ crc_out \in {<<14, 41>>, <<14, 14>>}
    /\ _crc(crc_val) \in {13 * 256 + 40, 13 * 256 + 13}

-----------------------------------------------------------------------------
(* Properties of the request cycle, under Spec *)

\* what a call with str r has to send: the encoded str, its checksum, the
\* terminator
FrameFor(r) == encode(r) \o _calcCRC(encode(r)) \o <<CR>>

\* the frames of the mnemonics and identifiers the public operations are
\* called with, each built once
Frames == {<<r, FrameFor(r)>> : r \in Mnemonics \cup Queries}

\* the frame of the call
FrameOf ==
    IF \E p \in Frames : p[1] = request
    THEN (CHOOSE p \in Frames : p[1] = request)[2]
    ELSE FrameFor(request)

\* a request cycle has ended and nothing was called since
CycleEnded == pc = "idle" /\ out.op = "command" /\ ret.kind # "none"

\* the deadline ended the cycle
DeadlineCut == ret.exc = "TimeoutError" \/ log.exc = "TimeoutError"

\* index of the first terminator byte of s, 0 if it has none
FirstCR(s) ==
    IF Contains(s, CR) THEN CHOOSE i \in 1..Len(s) :
                                 s[i] = CR /\ \A j \in 1..(i-1) : s[j] # CR
    ELSE 0

\* the bytes read in this cycle are a response 0x28 ++ payload ++ checksum ++
\* 0x0d whose payload holds no terminator, then only 0x00 bytes
ReadValidReply ==
    LET t == FirstCR(rxlog)
    IN  /\ t >= 4
        /\ rxlog[1] = START_CHAR
        /\ SubSeq(rxlog, t - 2, t - 1) = _calcCRC(SubSeq(rxlog, 1, t - 3))
        /\ \A i \in (t + 1)..Len(rxlog) : rxlog[i] = NUL

\* the payload of that response
ReadPayload == SubSeq(rxlog, 2, FirstCR(rxlog) - 3)

\* C1: when the reads of a cycle deliver, over any split, a valid response
\* followed by zero or more 0x00 bytes, and the deadline does not cut the
\* cycle, _sendRequest returns exactly the payload.
C1_RoundTrip ==
    (CycleEnded /\ ReadValidReply /\ ~DeadlineCut)
        => ret = RetValue(ReadPayload)

\* "ACK" came back from a padded response
C1_Witness ==
    /\ CycleEnded
    /\ rxlog = Frame(ACK) \o <<NUL>>
    /\ ret = RetValue(ACK)

\* the writes of the chunk loop are over
TxOver == pc \in {"rx_sleep", "rx_read", "rx_done"}

\* C4: the chunks written in one cycle are, in order, the frame
\* encode(request) ++ checksum ++ 0x0d cut every 8 bytes: no write carries
\* more than 8 bytes, every write but the last carries exactly 8, and the
\* whole is the frame, followed by one 0x00 only when the last chunk is the
\* terminator alone.
C4_FrameWritten ==
    LET frame == FrameOf
        all   == Flatten(written)
        n     == Len(written)
    IN  /\ pc \in {"tx_sleep", "tx_write"} =>
              /\ \A i \in 1..n : Len(written[i]) = 8
              /\ all = SubSeq(frame, 1, Len(all))
              /\ Len(all) < Len(frame)
        /\ TxOver =>
              /\ n >= 1
              /\ \A i \in 1..n : Len(written[i]) <= 8
              /\ \A i \in 1..(n-1) : Len(written[i]) = 8
              /\ IF Len(frame) % 8 = 1
                 THEN written[n] = <<CR, NUL>> /\ all = frame \o <<NUL>>
                 ELSE all = frame

\* a frame of 9 bytes went out as 8 bytes and 0x0d 0x00
C4_Witness ==
    /\ pc = "rx_sleep"
    /\ Len(written) = 2
    /\ written[2] = <<CR, NUL>>

\* C5 as claimed: command returns True exactly when the validated payload is
\* "ACK", and returns False, raising nothing, for every other validated
\* payload.
C5_CommandIffAck ==
    (CycleEnded /\ ret.kind = "value") =>
        /\ out.kind = "return"
        /\ out.val = (ret.val = encode(ACK))

\* C7: when a write fails the cycle ends at once: the chunks before it are
\* all that was written, nothing was read, the port is closed and
\* _sendRequest returns None.
C7_WriteFailureAborts ==
    (CycleEnded /\ log.msg = "Error writing to device.") =>
        /\ port = <<>>
        /\ ret = RetNone
        /\ rxlog = <<>>
        /\ reply = <<>>
        /\ Len(written) * 8 = offset
        /\ offset < Len(RequestCrc(request))

\* the write of the second chunk failed
C7_Witness ==
    /\ CycleEnded
    /\ log = Logged("Error writing to device.", "OSError")
    /\ Len(written) = 1
    /\ port = <<>>

\* C8 as claimed: after a failed write or a failed read the port is closed.
C8_IoFailureCloses ==
    (CycleEnded /\ log.exc = "OSError") => port = <<>>

\* the response as validated ends in the terminator and carries the checksum
\* of what precedes it
ChecksumMatches(resp) ==
    /\ Len(resp) >= 3
    /\ resp[Len(resp)] = CR
    /\ SubSeq(resp, Len(resp) - 2, Len(resp) - 1)
           = _calcCRC(SubSeq(resp, 1, Len(resp) - 3))

\* C10 as claimed: a terminated, correctly checksummed response that does not
\* start with 0x28 yields no payload.
C10_BadStartFails ==
    (CycleEnded /\ ~DeadlineCut /\ ChecksumMatches(response)
        /\ response[1] # START_CHAR) => ret.kind # "value"

\* the reader met a terminator and the response went on to validation
Validated == Contains(rxlog, CR) /\ ~DeadlineCut

\* the cycle failed as a checksum mismatch
ChecksumMismatch == ret = RetNone /\ log = Logged("CRC does not match", "")

\* C9 as claimed: a valid response with any one byte replaced, once the
\* cycle has read it, fails as a checksum mismatch.
C9_AnyByteMismatch ==
    (CycleEnded /\ stale = <<>> /\ reply \in MutatedReplies
        /\ (Validated \/ (rxlog = reply /\ log.exc # "OSError")))
        => ChecksumMismatch

\* a valid response with one byte other than its terminator replaced by a
\* value other than the terminator
InnerMutations ==
    UNION { Mutations(base, 1..(Len(base) - 1), MutValues \ {CR}) :
              base \in MutBases }

\* C9 as amended: a valid response with one byte other than its terminator
\* replaced by a value other than the terminator fails validation as a
\* checksum mismatch.
C9_InnerByteMismatch ==
    (CycleEnded /\ stale = <<>> /\ reply \in InnerMutations /\ Validated)
        => ChecksumMismatch

\* the escaped checksum byte 0x29 was replaced by the raw 0x28
C9_Witness ==
    /\ CycleEnded
    /\ stale = <<>>
    /\ reply = [Frame(<<57>>) EXCEPT ![3] = START_CHAR]
    /\ reply \in InnerMutations
    /\ Validated
    /\ ChecksumMismatch

-----------------------------------------------------------------------------
(* The deadline, under FairSpec *)

-----------------------------------------------------------------------------
(* Properties of the decoders of entities.py, under SpecEnt *)

\* the flag codes and their keys, as the docstring of parseDeviceFlags lists
\* them
FlagTable ==
    << <<"a", "alarm_act">>, <<"b", "ovrl_bypass">>, <<"j", "pwr_save">>,
       <<"k", "lcd_rtn">>, <<"u", "ovrl_rstrt">>, <<"v", "ovr_tmp_rstrt">>,
       <<"x", "back_light">>, <<"y", "alrm_pri_src_off">>,
       <<"z", "flt_code_rec">> >>

IsFlagCode(c) == \E i \in 1..Len(FlagTable) : Ord(FlagTable[i][1]) = c
FlagKeyOf(c) == FlagTable[CHOOSE i \in 1..Len(FlagTable) : Ord(FlagTable[i][1]) = c][2]

\* parseDeviceFlags was applied to a str
FlagsDecoded == ent_in.fn = "parseDeviceFlags" /\ ent_out # Pending

\* s is "E", characters other than "E" and "D", "D", and again such characters
EDForm(s) ==
    /\ s # <<>>
    /\ s[1] = Ord("E")
    /\ Cardinality({i \in 1..Len(s) : s[i] = Ord("D")}) = 1
    /\ Cardinality({i \in 1..Len(s) : s[i] = Ord("E")}) = 1

\* the index of the "D" of such a str
DAt(s) == CHOOSE i \in 1..Len(s) : s[i] = Ord("D")

\* the indices of the characters that are neither "E", "D" nor a flag code
UnknownAt(s) ==
    {i \in 1..Len(s) : s[i] \notin {Ord("E"), Ord("D")} /\ ~IsFlagCode(s[i])}

\* the failure of the decoder on s: it reports the first unknown character
\* and the whole str, and carries no mapping
FlagFailure(s) ==
    /\ ~ent_out.ok
    /\ ent_out.exc = "RuntimeError"
    /\ ent_out.flag = <<s[CHOOSE i \in UnknownAt(s) : \A j \in UnknownAt(s) : i <= j]>>
    /\ ent_out.flags = PyStr(s)
    /\ "val" \notin DOMAIN ent_out

\* C16 as claimed: for a flag string E<chars>D<chars> of known flag codes
\* every code after E maps its key to True and every code after D maps its
\* key to False; with an unknown character the decoder fails, reporting the
\* first such character and the whole string, and returns no mapping.
C16_FlagDecoding ==
    (FlagsDecoded /\ EDForm(ent_in.arg.str)) =>
        LET s == ent_in.arg.str
        IN  IF UnknownAt(s) = {}
            THEN /\ ent_out.ok
                 /\ \A i \in 2..(DAt(s) - 1) :
                        ent_out.val[FlagKeyOf(s[i])] = PyBool(TRUE)
                 /\ \A i \in (DAt(s) + 1)..Len(s) :
                        ent_out.val[FlagKeyOf(s[i])] = PyBool(FALSE)
            ELSE FlagFailure(s)

\* C16 as amended: as claimed, but a code that follows both E and D maps
\* its key to False only; the mapping holds the keys of the codes in the
\* string and no other.
C16_FlagDecodingLastWins ==
    (FlagsDecoded /\ EDForm(ent_in.arg.str)) =>
        LET s   == ent_in.arg.str
            dis == {s[i] : i \in (DAt(s) + 1)..Len(s)}
        IN  IF UnknownAt(s) = {}
            THEN /\ ent_out.ok
                 /\ DOMAIN ent_out.val =
                        {FlagKeyOf(s[i]) : i \in (2..Len(s)) \ {DAt(s)}}
                 /\ \A i \in 2..(DAt(s) - 1) :
                        s[i] \notin dis =>
                            ent_out.val[FlagKeyOf(s[i])] = PyBool(TRUE)
                 /\ \A i \in (DAt(s) + 1)..Len(s) :
                        ent_out.val[FlagKeyOf(s[i])] = PyBool(FALSE)
            ELSE FlagFailure(s)

\* "EabkDxy" was decoded
C16_Witness ==
    /\ FlagsDecoded
    /\ ent_in.arg.str = Text(<<"E", "a", "b", "k", "D", "x", "y">>)
    /\ ent_out.ok
    /\ ent_out.val["lcd_rtn"] = PyBool(TRUE)
    /\ ent_out.val["alrm_pri_src_off"] = PyBool(FALSE)

\* parseWarnState was applied to a str
WarnDecoded == ent_in.fn = "parseWarnState" /\ ent_out # Pending

\* s holds only "0" and "1"
IsBits(s) == \A i \in 1..Len(s) : s[i] \in {Ord("0"), Ord("1")}

\* C17 as claimed: for a string of 32 "0" and "1", every warning indicator
\* is mapped to True exactly when the character at its declared index
\* (warn_ind) is "1".
C17_WarnByDeclaredIndex ==
    (WarnDecoded /\ Len(ent_in.arg.str) = 32 /\ IsBits(ent_in.arg.str)) =>
        /\ ent_out.ok
        /\ \A n \in 1..Len(ENTITIES) :
              ENTITIES[n].warn_ind >= 0 =>
                  ent_out.val[ENTITIES[n].key] =
                      PyBool(ent_in.arg.str[ENTITIES[n].warn_ind + 1] = Ord("1"))

\* C18 as claimed: a string whose length is not the number of warning
\* indicators makes the decoder fail.
C18_WarnLengthChecked ==
    (WarnDecoded /\ Len(ent_in.arg.str) # NumWarn) => ~ent_out.ok

\* the "fmt" of an entity was applied to a raw field
Coerced == ent_in.fn = "fmt" /\ ent_out # Pending

\* the entities whose coercion is an enumerated lookup
EnumKeys ==
    { "bat_type", "ac_in_range_v", "out_src_pri", "chg_src_pri", "inv_type",
      "topology", "out_mode", "pv_para_ok", "pv_p_bal", "dev_mode" }

\* the number of names an entity with a tuple of names defines: its codes
\* are the integers from 0 to one less
EnumSize(k) ==
    CASE k = "bat_type" -> 3
      [] k = "ac_in_range_v" -> 2
      [] k = "out_src_pri" -> 3
      [] k = "chg_src_pri" -> 4
      [] k = "topology" -> 2
      [] k = "out_mode" -> 5
      [] k = "pv_para_ok" -> 2
      [] k = "pv_p_bal" -> 2

\* the raw field v is a code the entity defines
InCodeSet(k, v) ==
    CASE k = "inv_type" ->
            v \in {Text(<<"0", "0">>), Text(<<"0", "1">>), Text(<<"1", "0">>)}
      [] k = "dev_mode" -> v \in {Text(<<c>>) : c \in {"P", "S", "L", "B", "F", "H"}}
      [] OTHER -> int(v).ok /\ int(v).val >= 0 /\ int(v).val < EnumSize(k)

\* C19 as claimed: for an entity with an enumerated lookup a raw code
\* outside its defined codes makes the coercion fail.
C19_EnumOutOfRangeFails ==
    (Coerced /\ ent_in.key \in EnumKeys /\ ~InCodeSet(ent_in.key, ent_in.arg.str))
        => ~ent_out.ok

-----------------------------------------------------------------------------
(* Properties of Axpert.query, under Spec *)

\* a call of query has ended
QueryEnded == pc = "idle" /\ out.op = "query"

\* the identifier of the call is not in QUERIES
UnknownQuery == QueryAt(request) = {}

\* C11: query called with an identifier that is not in the query table
\* writes nothing to the channel and reads nothing from it, and ends raising
\* the unknown-query error (ValueError).
C11_UnknownQueryNoIo ==
    /\ (caller = "query" /\ UnknownQuery) => (written = <<>> /\ rxlog = <<>>)
    /\ (QueryEnded /\ UnknownQuery) =>
           /\ out = OutRaise("query", "ValueError")
           /\ written = <<>>
           /\ rxlog = <<>>

\* the entry of QUERIES the call names
QueryDef == QUERIES[CHOOSE i \in QueryAt(request) : TRUE]

\* a call of query whose identifier has a list of keys has ended, after
\* _sendRequest returned a payload that decodes
PositionalEnded ==
    /\ QueryEnded
    /\ ~UnknownQuery
    /\ QueryDef.call = ""
    /\ ret.kind = "value"
    /\ decode(ret.val).ok

\* the fields the payload splits into
Fields == split(decode(ret.val).str, 32)

\* C12: a positional query whose payload splits into fewer fields than the
\* key list has keys ends with an error, not with a result.
C12_ShortFieldListFails ==
    (PositionalEnded /\ Len(Fields) < Len(QueryDef.keys)) => out.kind = "raise"

\* the positions of the zipped pairs whose field the formatter of the key
\* does not accept
FailingAt ==
    { i \in 1..Min(Len(QueryDef.keys), Len(Fields)) :
        ~fmt(QueryDef.keys[i], Fields[i]).ok }

\* the first of them
FirstFailing == CHOOSE i \in FailingAt : \A j \in FailingAt : i <= j

\* C20: in a positional query, when the coercion of a field fails, query
\* returns nothing and raises the formatting error (RuntimeError) that names
\* the key of the field that failed.
C20_CoercionFailureAborts ==
    (PositionalEnded /\ FailingAt # {}) =>
        /\ out.kind = "raise"
        /\ out.exc = "RuntimeError"
        /\ out.key = QueryDef.keys[FirstFailing]

\* a QPIGS call whose second field, "xx", is no number has ended
C20_Witness ==
    /\ PositionalEnded
    /\ Len(Fields) = 2
    /\ FailingAt = {2}
    /\ out.kind = "raise"
    /\ out.key = "grid_f"

-----------------------------------------------------------------------------
(* Properties of the session as a whole, under Spec *)

\* the descriptors the session holds: the one in self.port, if any
Held == IF port = <<>> THEN {} ELSE {port[1]}

\* C13: every descriptor an open obtained is released by the time the
\* session lets go of it, and none is released twice: the descriptors that
\* are open are exactly the one the session holds, so that after close, and
\* after a cycle that closed the port, none is open.
C13_HandleReleasedOnce == live = Held

\* s is the beginning of t
IsPrefix(s, t) == Len(s) <= Len(t) /\ SubSeq(t, 1, Len(s)) = s

\* a request cycle is in progress, or a call that made one has ended
InCycle == pc # "idle" \/ CycleEnded \/ QueryEnded

\* C14: in a cycle that follows a failed one, what is read is the reply to
\* this request only, never bytes the failed cycle left unread; and a valid
\* reply, read up to its terminator before the deadline, is returned.
C14_NoStaleBytes ==
    /\ (InCycle /\ stale_failed) => IsPrefix(rxlog, reply)
    /\ (CycleEnded /\ stale_failed /\ reply \in ValidReplies /\ Validated)
           => ret.kind = "value"

\* the chunks of a frame, in the order of their offsets
ChunksOf(frame) ==
    [i \in 1..((Len(frame) + TX_CHUNK_SZ - 1) \div TX_CHUNK_SZ) |->
        Chunk(frame, (i - 1) * TX_CHUNK_SZ)]

\* C15: within one call, what has been handed to os.write is the beginning
\* of the frame's chunks, each once and in order: no chunk is written twice
\* and the frame is not sent again, whatever way the cycle ends.
C15_NoRetry ==
    written # <<>> => IsPrefix(written, ChunksOf(FrameOf))

\* a call that wrote a frame of two chunks and failed has ended
C15_Witness ==
    /\ CycleEnded
    /\ Failed(ret)
    /\ Len(written) = 2
    /\ written = ChunksOf(RequestCrc(request))

\* the value a positional result must hold for the key at position i: the
\* coerced field, as f"{val}{unit}" when units are asked for and the entity
\* has a unit
Expected(i) ==
    LET k == QueryDef.keys[i]
        c == fmt(k, Fields[i]).val
    IN  IF add_units /\ Entity(k).unit # "" THEN PyUnit(c, Entity(k).unit)
        ELSE c

\* C21: every field of a positional result is the coerced value suffixed
\* with the entity's unit exactly when units are asked for and the entity
\* has a non-empty unit, and the bare coerced value otherwise.
C21_UnitSuffix ==
    (PositionalEnded /\ out.kind = "return") =>
        \A i \in 1..Min(Len(QueryDef.keys), Len(Fields)) :
            out.val.dict[QueryDef.keys[i]] = Expected(i)

\* a QPIGS call with units has returned all 21 fields: grid_v has its unit
\* appended, dev_stat, which has none, is the bare string
C21_Witness ==
    /\ PositionalEnded
    /\ out.kind = "return"
    /\ add_units
    /\ Len(Fields) = 21
    /\ out.val.dict["grid_v"] = PyUnit(fmt("grid_v", Fields[1]).val, "V")
    /\ out.val.dict["dev_stat"] = PyStr(Fields[17])

\* the same call without units: grid_v is the bare number
C21_WitnessBare ==
    /\ PositionalEnded
    /\ out.kind = "return"
    /\ ~add_units
    /\ Len(Fields) = 21
    /\ out.val.dict["grid_v"] = fmt("grid_v", Fields[1]).val


\* chunking leaves the terminator alone in the last chunk of the frame
LoneTerminator == Len(FrameOf) % TX_CHUNK_SZ = 1

\* C22: no write consists of the single terminator byte; when chunking
\* leaves the terminator alone in the last chunk, that write is the
\* terminator and one 0x00 byte.
\* (A frame has at least 4 bytes, so a terminator alone in the last chunk
\* is in the second chunk or later.)
C22_NoBareTerminator ==
    /\ \A i \in 1..Len(written) : written[i] # <<CR>>
    /\ Len(written) >= 2 =>
          LET frame == FrameOf
          IN  (Len(frame) % TX_CHUNK_SZ = 1
                  /\ Len(written) * TX_CHUNK_SZ > Len(frame))
                 => written[Len(written)] = <<CR, NUL>>

\* a call whose frame has 9 bytes wrote 8 of them, then the padded
\* terminator, and went on to return the payload of the reply
C22_Witness ==
    /\ CycleEnded
    /\ ret.kind = "value"
    /\ Len(FrameOf) = 9
    /\ written = <<SubSeq(FrameOf, 1, 8), <<CR, NUL>>>>

\* a step in which os.write took a chunk
WriteStep == written' # written /\ written' # <<>>

\* a step in which os.read returned bytes
ReadStep == rxlog' # rxlog /\ rxlog' # <<>>

\* the order of the steps of one cycle
CycleOrder ==
    /\ WriteStep => (pc = "tx_write" /\ alarm /\ pc' # "tx_write")
    /\ pc' = "tx_write" => pc \in {"tx_sleep", "tx_write"}
    /\ ReadStep => (pc = "rx_read" /\ pc' # "rx_read")
    /\ pc' = "rx_read" => pc \in {"rx_sleep", "rx_read"}
    /\ pc' = "rx_read" => Len(written') = Len(ChunksOf(RequestCrc(request')))

\* C24: in a request cycle the deadline is armed when the first chunk is
\* written; every write is reached from the transmit delay and is followed
\* by another delay before the next write; every read is reached from the
\* read delay and followed by another before the next read; and no read
\* comes before the last chunk of the frame has been written.
C24_CycleOrder == [][CycleOrder]_vars

\* both chunks of a frame were written and a reply was read to its
\* terminator
C24_Witness ==
    /\ pc = "rx_done"
    /\ alarm
    /\ Len(written) = 2
    /\ Contains(rxlog, CR)

\* head is tail without its trailing 0x00 bytes
StrippedOf(head, tail) ==
    /\ IsPrefix(head, tail)
    /\ \A i \in (Len(head) + 1)..Len(tail) : tail[i] = NUL
    /\ (head # <<>> => head[Len(head)] # NUL)

\* C25: the reader goes on reading while no chunk it read held the
\* terminator, keeping every byte; it stops at the first read whose chunk
\* holds the terminator, reads nothing after it, and only then strips the
\* trailing 0x00 bytes of what it accumulated, so that a 0x00 byte followed
\* by another byte is kept.
C25_ReadUntilTerminator ==
    /\ [](pc \in {"rx_sleep", "rx_read"} =>
              (response = rxlog /\ ~Contains(rxlog, CR)))
    /\ [](pc = "rx_done" =>
              (Contains(rxlog, CR) /\ StrippedOf(response, rxlog)))
    /\ [][(pc = "rx_read" /\ Contains(rxlog', CR)) => pc' # "rx_sleep"]_vars
    /\ [][pc = "rx_done" => ~ReadStep]_vars

\* the reader stopped on a reply whose payload holds a 0x00 byte and which
\* ends in 0x00 padding: the padding is gone, the inner byte is kept
C25_Witness ==
    /\ pc = "rx_done"
    /\ Contains(response, NUL)
    /\ Len(response) < Len(rxlog)
    /\ response[Len(response)] = CR

\* a call has ended whose cycle read a terminator and went on to validate
\* the response
ValidationEnded ==
    /\ pc = "idle"
    /\ out.op \in {"command", "query"}
    /\ Validated

\* C26: validation looks at the terminator first and at the checksum second:
\* a response whose last byte is not 0x0d fails as malformed whatever its
\* checksum and first byte are, and a response that ends in 0x0d but does
\* not carry the checksum of what precedes it fails as a checksum mismatch
\* whatever its first byte is.
C26_ValidationOrder ==
    ValidationEnded =>
        /\ response[Len(response)] # CR =>
               (ret = RetNone /\ log = Logged("does not end with CR", ""))
        /\ (response[Len(response)] = CR /\ ~ChecksumMatches(response)) =>
               ChecksumMismatch

\* a response that neither starts with 0x28 nor carries its checksum failed
\* as a checksum mismatch
C26_Witness ==
    /\ ValidationEnded
    /\ response[Len(response)] = CR
    /\ response[1] # START_CHAR
    /\ ~ChecksumMatches(response)
    /\ ChecksumMismatch

\* a response that does not end in 0x0d failed as malformed
C26_WitnessMalformed ==
    /\ ValidationEnded
    /\ response[Len(response)] # CR
    /\ log = Logged("does not end with CR", "")

\* C29: whenever no request cycle is in progress the deadline timer is not
\* armed: every return from _sendRequest, by success, write error, read
\* error, timeout or validation, leaves it disarmed.
C29_TimerDisarmed == pc = "idle" => ~alarm

\* C30: whatever the device delivers, _sendRequest ends by returning a
\* payload or None: no exception leaves it.
C30_NeverRaises == ret.kind # "raise"

-----------------------------------------------------------------------------
(* The keys of the positional queries and the entity table *)

\* ENTITIES holds key k and the entry has a "fmt"
Defined(k) == EntityAt(k) # {} /\ Entity(k).fmt # ""

\* the keys of the list of query i, when it has a list
ListedKeys(i) ==
    IF QUERIES[i].call # "" THEN {}
    ELSE {QUERIES[i].keys[j] : j \in 1..Len(QUERIES[i].keys)}

\* the tables as they are written: every listed key is defined
ListedKeysDefined ==
    \A i \in 1..Len(QUERIES) : \A k \in ListedKeys(i) : Defined(k)

\* C27: every key in the key list of a query is a key of the entity table
\* whose entry has a formatter, and a positional query that ends with an
\* error names a key the table defines: no positional query fails for want
\* of an entity definition.
C27_RegistryInvariant ==
    /\ ListedKeysDefined
    /\ (PositionalEnded /\ out.kind = "raise") => Defined(out.key)

\* a positional query returned a value for every key of its list; another
\* named the key whose field its formatter refused
C27_Witness ==
    /\ PositionalEnded
    /\ out.kind = "return"
    /\ DOMAIN out.val.dict = ListedKeys(CHOOSE i \in QueryAt(request) : TRUE)

C27_WitnessRefused ==
    /\ PositionalEnded
    /\ out.kind = "raise"
    /\ Defined(out.key)

-----------------------------------------------------------------------------
(* The CLI command: entities.COMMANDS and the function command of axpert.py *)

\* str.lower() of an ASCII str
lower(s) == [i \in 1..Len(s) |-> IF s[i] >= 65 /\ s[i] <= 90 THEN s[i] + 32 ELSE s[i]]

\* onOff(val) for a str: ok is FALSE where it raises ValueError
onOff(val) ==
    IF lower(val) \in {Text(<<"1">>), Text(<<"o", "n">>), Text(<<"t", "r", "u", "e">>)}
    THEN Ok(PyBool(TRUE))
    ELSE IF lower(val) \in {Text(<<"0">>), Text(<<"o", "f", "f">>),
                            Text(<<"f", "a", "l", "s", "e">>)}
    THEN Ok(PyBool(FALSE))
    ELSE Fail("ValueError")

\* re.compile(r"^\d{2}\.\d$").search(s) for an ASCII str: "$" also matches
\* before a newline that ends the str
IS_VOLTAGE(s) ==
    /\ Len(s) = 4 \/ (Len(s) = 5 /\ s[5] = 10)
    /\ IsDigit(s[1])
    /\ IsDigit(s[2])
    /\ s[3] = 46
    /\ IsDigit(s[4])

COMMANDS ==
    <<
       [id |-> Text(<<"A", "L", "A", "R", "M">>),
        args |-> <<[conv |-> "onOff", map |-> <<>>]>>,
        checked |-> FALSE, validate |-> <<>>,
        cmd |-> [kind |-> "onoff", text |-> Text(<<"a">>)], disabled |-> FALSE],
       [id |-> Text(<<"O", "V", "L", "_", "B", "P">>),
        args |-> <<[conv |-> "onOff", map |-> <<>>]>>,
        checked |-> FALSE, validate |-> <<>>,
        cmd |-> [kind |-> "onoff", text |-> Text(<<"b">>)], disabled |-> FALSE],
       [id |-> Text(<<"P", "W", "R", "_", "S", "V">>),
        args |-> <<[conv |-> "onOff", map |-> <<>>]>>,
        checked |-> FALSE, validate |-> <<>>,
        cmd |-> [kind |-> "onoff", text |-> Text(<<"b">>)], disabled |-> FALSE],
       [id |-> Text(<<"L", "C", "D", "_", "H", "M">>),
        args |-> <<[conv |-> "onOff", map |-> <<>>]>>,
        checked |-> FALSE, validate |-> <<>>,
        cmd |-> [kind |-> "onoff", text |-> Text(<<"k">>)], disabled |-> FALSE],
       [id |-> Text(<<"O", "L", "_", "R", "S", "T">>),
        args |-> <<[conv |-> "onOff", map |-> <<>>]>>,
        checked |-> FALSE, validate |-> <<>>,
        cmd |-> [kind |-> "onoff", text |-> Text(<<"u">>)], disabled |-> FALSE],
       [id |-> Text(<<"O", "T", "_", "R", "S", "T">>),
        args |-> <<[conv |-> "onOff", map |-> <<>>]>>,
        checked |-> FALSE, validate |-> <<>>,
        cmd |-> [kind |-> "onoff", text |-> Text(<<"v">>)], disabled |-> FALSE],
       [id |-> Text(<<"B", "L">>),
        args |-> <<[conv |-> "onOff", map |-> <<>>]>>,
        checked |-> FALSE, validate |-> <<>>,
        cmd |-> [kind |-> "onoff", text |-> Text(<<"x">>)], disabled |-> FALSE],
       [id |-> Text(<<"A", "L", "_", "P", "S", "R", "C">>),
        args |-> <<[conv |-> "onOff", map |-> <<>>]>>,
        checked |-> FALSE, validate |-> <<>>,
        cmd |-> [kind |-> "onoff", text |-> Text(<<"y">>)], disabled |-> FALSE],
       [id |-> Text(<<"F", "C", "_", "R", "E", "C">>),
        args |-> <<[conv |-> "onOff", map |-> <<>>]>>,
        checked |-> FALSE, validate |-> <<>>,
        cmd |-> [kind |-> "onoff", text |-> Text(<<"z">>)], disabled |-> FALSE],
       [id |-> Text(<<"F", "A", "C", "T", "_", "R", "S", "T">>),
        args |-> <<>>,
        checked |-> FALSE, validate |-> <<>>,
        cmd |-> [kind |-> "str", text |-> Text(<<"P", "F">>)], disabled |-> TRUE],
       [id |-> Text(<<"O", "U", "T", "_", "F", "R", "Q">>),
        args |-> <<[conv |-> "None", map |-> <<>>]>>,
        checked |-> TRUE, validate |-> <<[rule |-> "in", among |-> {Text(<<"5", "0">>), Text(<<"6", "0">>)}]>>,
        cmd |-> [kind |-> "prefix", text |-> Text(<<"F">>)], disabled |-> TRUE],
       [id |-> Text(<<"O", "U", "T", "_", "P", "R", "I">>),
        args |-> <<[conv |-> "get",
                    map |-> <<<<Text(<<"u", "t", "i", "l", "i", "t", "y", "_", "1", "s", "t">>), Text(<<"0", "0">>)>>,
                              <<Text(<<"s", "o", "l", "a", "r", "_", "1", "s", "t">>), Text(<<"0", "1">>)>>,
                              <<Text(<<"S", "B", "U">>), Text(<<"0", "2">>)>>>>]>>,
        checked |-> TRUE, validate |-> <<[rule |-> "in", among |-> {Text(<<"0", "0">>), Text(<<"0", "1">>), Text(<<"0", "2">>)}]>>,
        cmd |-> [kind |-> "prefix", text |-> Text(<<"P", "O", "P">>)], disabled |-> TRUE],
       [id |-> Text(<<"B", "A", "T", "_", "U", "F", "B", "_", "V">>),
        args |-> <<[conv |-> "None", map |-> <<>>]>>,
        checked |-> TRUE, validate |-> <<[rule |-> "IS_VOLTAGE", among |-> {}]>>,
        cmd |-> [kind |-> "prefix", text |-> Text(<<"P", "B", "C", "V">>)], disabled |-> FALSE],
       [id |-> Text(<<"B", "A", "T", "_", "R", "E", "T", "_", "V">>),
        args |-> <<[conv |-> "None", map |-> <<>>]>>,
        checked |-> TRUE, validate |-> <<[rule |-> "IS_VOLTAGE", among |-> {}]>>,
        cmd |-> [kind |-> "prefix", text |-> Text(<<"P", "B", "D", "V">>)], disabled |-> FALSE],
       [id |-> Text(<<"C", "H", "G", "_", "P", "R", "I">>),
        args |-> <<[conv |-> "get",
                    map |-> <<<<Text(<<"u", "t", "i", "l", "i", "t", "y", "_", "1", "s", "t">>), Text(<<"0", "0">>)>>,
                              <<Text(<<"s", "o", "l", "a", "r", "_", "1", "s", "t">>), Text(<<"0", "1">>)>>,
                              <<Text(<<"s", "o", "l", "_", "u", "t", "i", "l">>), Text(<<"0", "2">>)>>,
                              <<Text(<<"s", "o", "l", "_", "o", "n", "l", "y">>), Text(<<"0", "3">>)>>>>]>>,
        checked |-> TRUE, validate |-> <<[rule |-> "in", among |-> {Text(<<"0", "0">>), Text(<<"0", "1">>), Text(<<"0", "2">>), Text(<<"0", "3">>)}]>>,
        cmd |-> [kind |-> "prefix", text |-> Text(<<"P", "C", "P">>)], disabled |-> TRUE],
       [id |-> Text(<<"A", "C", "_", "I", "N", "_", "V">>),
        args |-> <<[conv |-> "get",
                    map |-> <<<<Text(<<"a", "p", "p", "l", "i", "a", "n", "c", "e">>), Text(<<"0", "0">>)>>,
                              <<Text(<<"u", "p", "s">>), Text(<<"0", "1">>)>>>>]>>,
        checked |-> TRUE, validate |-> <<[rule |-> "in", among |-> {Text(<<"0", "0">>), Text(<<"0", "1">>)}]>>,
        cmd |-> [kind |-> "prefix", text |-> Text(<<"P", "G", "R">>)], disabled |-> TRUE],
       [id |-> Text(<<"B", "A", "T", "_", "T", "Y", "P", "E">>),
        args |-> <<[conv |-> "get",
                    map |-> <<<<Text(<<"A", "G", "M">>), Text(<<"0", "0">>)>>,
                              <<Text(<<"f", "l", "o", "o", "d", "e", "d">>), Text(<<"0", "1">>)>>,
                              <<Text(<<"u", "s", "e", "r">>), Text(<<"0", "2">>)>>>>]>>,
        checked |-> TRUE, validate |-> <<[rule |-> "in", among |-> {Text(<<"0", "0">>), Text(<<"0", "1">>), Text(<<"0", "2">>)}]>>,
        cmd |-> [kind |-> "prefix", text |-> Text(<<"P", "B", "T">>)], disabled |-> TRUE],
       [id |-> Text(<<"B", "A", "T", "_", "U", "N", "D", "_", "V">>),
        args |-> <<[conv |-> "None", map |-> <<>>]>>,
        checked |-> TRUE, validate |-> <<[rule |-> "IS_VOLTAGE", among |-> {}]>>,
        cmd |-> [kind |-> "prefix", text |-> Text(<<"P", "S", "D", "V">>)], disabled |-> FALSE],
       [id |-> Text(<<"B", "A", "T", "_", "B", "C", "H">>),
        args |-> <<[conv |-> "None", map |-> <<>>]>>,
        checked |-> TRUE, validate |-> <<[rule |-> "IS_VOLTAGE", among |-> {}]>>,
        cmd |-> [kind |-> "prefix", text |-> Text(<<"P", "C", "V", "V">>)], disabled |-> FALSE],
       [id |-> Text(<<"B", "A", "T", "_", "F", "C", "H">>),
        args |-> <<[conv |-> "None", map |-> <<>>]>>,
        checked |-> TRUE, validate |-> <<[rule |-> "IS_VOLTAGE", among |-> {}]>>,
        cmd |-> [kind |-> "prefix", text |-> Text(<<"P", "B", "F", "T">>)], disabled |-> FALSE]
    >>

\* the indices of COMMANDS that hold the id cmd
CommandAt(cmd) == {i \in 1..Len(COMMANDS) : COMMANDS[i].id = cmd}

\* m.get(val) for the dict m of a converter: None for a missing key
DictGet(m, val) ==
    IF \E i \in 1..Len(m) : m[i][1] = val
    THEN PyStr(m[CHOOSE i \in 1..Len(m) : m[i][1] = val][2])
    ELSE PyNone

\* lines 861 to 869: one argument converted, or left as it is when the
\* converter is None
Convert(c, val) ==
    CASE c.conv = "None" -> Ok(PyStr(val))
      [] c.conv = "onOff" -> onOff(val)
      [] c.conv = "get" -> Ok(DictGet(c.map, val))

\* the loop of lines 859 to 869 over zip(cmd_def["args"], arg): the list of
\* converted arguments, or the first ValueError
RECURSIVE ConvertAll(_, _)
Converted(r, rest) ==
    IF ~r.ok THEN r
    ELSE IF ~rest.ok THEN rest
    ELSE Ok(<<r.val>> \o rest.val)

ConvertAll(convs, arg) ==
    IF convs = <<>> \/ arg = <<>> THEN Ok(<<>>)
    ELSE Converted(Convert(Head(convs), Head(arg)),
                   ConvertAll(Tail(convs), Tail(arg)))

\* v(a) for a validation rule v and a converted argument a
Accepts(v, a) ==
    IF v.rule = "IS_VOLTAGE" THEN IS_VOLTAGE(a.str)
    ELSE "str" \in DOMAIN a /\ a.str \in v.among

\* the loop of lines 883 to 889: no rule refuses its argument
ValidateAll(rules, args) ==
    \A i \in 1..Len(rules) : Accepts(rules[i], args[i])

\* bool(a) and str(a) of a converted argument
Truthy(a) ==
    IF "bool" \in DOMAIN a THEN a.bool
    ELSE IF "str" \in DOMAIN a THEN a.str # <<>>
    ELSE FALSE

Str(a) ==
    IF "str" \in DOMAIN a THEN a.str
    ELSE IF "bool" \in DOMAIN a
    THEN (IF a.bool THEN Text(<<"T", "r", "u", "e">>)
          ELSE Text(<<"F", "a", "l", "s", "e">>))
    ELSE Text(<<"N", "o", "n", "e">>)

\* lines 893 to 904: the mnemonic, which is cmd_def["cmd"] or what it returns
\* for the converted arguments; a single argument is taken out of the list
Mnemonic(c, args) ==
    CASE c.kind = "str" -> c.text
      [] c.kind = "onoff" ->
            <<80>> \o (IF Truthy(args[1]) THEN <<69>> ELSE <<68>>) \o c.text
      [] c.kind = "prefix" -> c.text \o Str(args[1])

\* a command that is never held back
Disabled_never(d) == FALSE

\* cmd_def.get("disabled", False)
Disabled(d) == d.disabled

\* how far the function gets before it opens the device, and the mnemonic
\* when it got as far as making one
Stopped(s) == [status |-> s, cmd_f |-> <<>>]

\* lines 909 to 911
Gated(d, m) ==
    [status |-> IF Disabled(d) THEN "disabled" ELSE "send", cmd_f |-> m]

\* lines 873 to 904, r being what the conversion loop gave
Checked(d, r) ==
    IF ~r.ok THEN Stopped("argument error")
    ELSE IF d.checked /\ Len(d.validate) # Len(r.val)
    THEN Stopped("definition error")
    ELSE IF d.checked /\ ~ValidateAll(d.validate, r.val)
    THEN Stopped("validation failed")
    ELSE Gated(d, Mnemonic(d.cmd, r.val))

\* lines 851 to 869
Counted(d, arg) ==
    IF Len(d.args) # Len(arg) THEN Stopped("argument count")
    ELSE Checked(d, ConvertAll(d.args, arg))

\* lines 831 to 848
Prepared(cmd, arg) ==
    IF lower(cmd) = Text(<<"l", "i", "s", "t">>) THEN Stopped("list")
    ELSE IF CommandAt(cmd) = {} THEN Stopped("invalid command")
    ELSE Counted(COMMANDS[CHOOSE i \in CommandAt(cmd) : TRUE], arg)

\* command ids given on the command line: "list" in two spellings, an id the
\* table does not hold, two on/off commands, a command without arguments, a
\* command that maps its argument, a command that takes a voltage
CliCmds ==
    { Text(<<"l", "i", "s", "t">>),
      Text(<<"L", "i", "s", "t">>),
      Text(<<"N", "O", "P", "E">>),
      Text(<<"A", "L", "A", "R", "M">>),
      Text(<<"P", "W", "R", "_", "S", "V">>),
      Text(<<"F", "A", "C", "T", "_", "R", "S", "T">>),
      Text(<<"O", "U", "T", "_", "P", "R", "I">>),
      Text(<<"B", "A", "T", "_", "U", "F", "B", "_", "V">>) }

\* argument lists given on the command line
CliArgs ==
    { <<>>,
      << Text(<<"o", "n">>) >>,
      << Text(<<"O", "F", "F">>) >>,
      << Text(<<"m", "a", "y", "b", "e">>) >>,
      << Text(<<"S", "B", "U">>) >>,
      << Text(<<"0", "2">>) >>,
      << Text(<<"4", "4", ".", "0">>) >>,
      << Text(<<"4", ".", "4", "0">>) >>,
      << Text(<<"4", "4", ".", "0">>) \o <<10>> >>,
      << Text(<<"o", "n">>), Text(<<"o", "f", "f">>) >> }

\* what the function has done with the command line
Ran(cmd, arg, p, opened) ==
    [cmd |-> cmd, arg |-> arg, cmd_f |-> p.cmd_f, status |-> p.status,
     opened |-> opened]

\* the function ends before line 914: nothing but the command line changes
EndsEarly(cmd, arg, p) ==
    /\ cli' = Ran(cmd, arg, p, FALSE)
    /\ UNCHANGED <<port, live, fd_limit, stale_failed, pc, caller, add_units,
                   request, offset, response, alarm, rx, written, rxlog,
                   stale, reply, ret, log, out, crc_val, crc_out, ent_in,
                   ent_out>>

\* lines 913 to 915: Axpert(device=device), __enter__ opening the device,
\* and inv.command(cmd_f) up to the first chunk of _sendRequest; when
\* os.open fails the RuntimeError of open leaves the function
Sends(cmd, arg, p) ==
    /\ request' = p.cmd_f
    /\ offset' = 0
    /\ response' = <<>>
    /\ written' = <<>>
    /\ rxlog' = <<>>
    /\ stale' = <<>>
    /\ stale_failed' = FALSE
    /\ reply' = <<>>
    /\ ret' = NoRet
    /\ log' = NoLog
    /\ add_units' = TRUE
    /\ \/ \E fd \in Fds \ live :
            /\ fd = Lowest(Fds \ live)
            /\ port' = <<fd>>
            /\ live' = live \cup {fd}
            /\ rx' = <<>>
            /\ caller' = "command"
            /\ alarm' = TRUE
            /\ out' = NoOut
            /\ pc' = "tx_sleep"
            /\ cli' = Ran(cmd, arg, p, TRUE)
       \/ /\ out' = OutRaise("open", "RuntimeError")
          /\ cli' = Ran(cmd, arg, Stopped("open failed"), FALSE)
          /\ UNCHANGED <<port, live, rx, caller, alarm, pc>>
    /\ UNCHANGED <<fd_limit, crc_val, crc_out, ent_in, ent_out>>

\* the CLI function command(ctx, cmd, arg), run once by the process
cli_command ==
    /\ pc = "idle"
    /\ cli.status = "none"
    /\ \E cmd \in CliCmds, arg \in CliArgs :
          IF Prepared(cmd, arg).status = "send"
          THEN Sends(cmd, arg, Prepared(cmd, arg))
          ELSE EndsEarly(cmd, arg, Prepared(cmd, arg))

\* inv.command has ended: __exit__ closes the device, and lines 917 to 921
\* report the result unless an exception left the with block
cli_exit ==
    /\ pc = "idle"
    /\ cli.status = "send"
    /\ port' = <<>>
    /\ live' = live \ Closed(port)
    /\ rx' = Released(port)
    /\ cli' = [cli EXCEPT !.status = IF out.kind = "raise" THEN "exception"
                                     ELSE IF out.val THEN "success"
                                     ELSE "failed"]
    /\ UNCHANGED <<fd_limit, stale_failed, pc, caller, add_units, request,
                   offset, response, alarm, written, rxlog, stale, reply,
                   ret, log, out, crc_val, crc_out, ent_in, ent_out>>

NextCli ==
    \/ cli_command
    \/ cli_exit
    \/ TxSleep
    \/ TxWrite
    \/ TxWriteFails
    \/ RxSleep
    \/ RxRead
    \/ RxReadFails
    \/ Finish
    \/ _timeoutAlarm

\* one run of the CLI command in a process of its own
SpecCli == Init /\ [][NextCli]_vars

-----------------------------------------------------------------------------
(* The CLI command: what is sent, and when *)

\* the descriptor of the command id given, when the table holds it
CliDef == COMMANDS[CHOOSE i \in CommandAt(cli.cmd) : TRUE]

\* the arguments given, converted one by one
CliConverted == [i \in 1..Len(cli.arg) |-> Convert(CliDef.args[i], cli.arg[i])]

\* the five conditions: the id is in the table, the argument count is that of
\* the descriptor, every conversion succeeded, every validation rule accepted
\* its converted argument, the command is not flagged disabled
Eligible ==
    /\ CommandAt(cli.cmd) # {}
    /\ Len(cli.arg) = Len(CliDef.args)
    /\ \A i \in 1..Len(cli.arg) : CliConverted[i].ok
    /\ CliDef.checked =>
          \A i \in 1..Len(cli.arg) : Accepts(CliDef.validate[i], CliConverted[i].val)
    /\ ~CliDef.disabled

\* the function touched the device: it opened it, holds it, is inside a
\* request, or wrote to or read from the channel
ChannelUsed ==
    \/ cli.opened
    \/ port # <<>>
    \/ live # {}
    \/ pc # "idle"
    \/ written # <<>>
    \/ rxlog # <<>>
    \/ out.op \in {"open", "command"}

\* C23: the CLI command opens the device and transmits a mnemonic only if
\* the command id is in the command table, the number of arguments is that
\* of the descriptor, every conversion succeeded, every validation rule
\* accepted its converted argument and the command is not flagged disabled;
\* in every other case it ends without any channel I/O.
C23_CliGating ==
    cli.status # "none" => (ChannelUsed => Eligible)

\* a command that passed all five conditions was sent and acknowledged;
\* a disabled command with accepted arguments, a refused voltage and an
\* unknown id ended with the channel untouched
C23_Witness ==
    /\ cli.status = "success"
    /\ Eligible
    /\ written # <<>>
    /\ Flatten(written) = RequestCrc(cli.cmd_f)

C23_WitnessDisabled ==
    /\ cli.status = "disabled"
    /\ cli.cmd_f = Text(<<"P", "O", "P", "0", "2">>)
    /\ ~ChannelUsed

C23_WitnessRefused ==
    /\ cli.status = "validation failed"
    /\ cli.cmd = Text(<<"B", "A", "T", "_", "U", "F", "B", "_", "V">>)
    /\ ~ChannelUsed

\* C28: PWR_SV generates the mnemonic "PEj" when its converted argument is
\* True and "PDj" when it is False, the flag code of power saving being "j".
C28_PowerSaveMnemonic ==
    (cli.cmd = Text(<<"P", "W", "R", "_", "S", "V">>) /\ cli.opened)
        => cli.cmd_f = (IF onOff(cli.arg[1]).val.bool
                        THEN Text(<<"P", "E", "j">>)
                        ELSE Text(<<"P", "D", "j">>))

=============================================================================
